---- MODULE Spec2Model ----
(***************************************************************************)
(* CloudSeeder: the run orchestrator (scripts/runLoad.js), the loader      *)
(* (lib/loader.js, insertAndMap), the reference resolver                   *)
(* (lib/mapping/ref-solver.js) and the commit layer (lib/sf.js).           *)
(***************************************************************************)
EXTENDS Integers, Sequences, FiniteSets, TLC

(***************************************************************************)
(* Bounds of the model.                                                    *)
(***************************************************************************)
MaxSteps == 2          \* steps in a pipeline of a full run
MaxSchedSteps == 4     \* steps in a pipeline of a scheduling-only run
MaxRecs == 2           \* rows in a data file
MaxLoads == 3          \* step configs a run loads
MaxWork == 4           \* records in the working set of a batching run

DefaultBatchSize == 200

Objs == {"Account", "Contact"}
Keys == {"k1", "k2"}

\* JavaScript undefined and null
Undef == "undefined"
Null == "null"

\* Primary__c is a custom lookup field: its name tells no entity type
Fields == {"ExternalKey", "ParentKey", "AccountId", "ParentId", "Primary__c"}

Min(S) == CHOOSE x \in S : \A y \in S : x <= y

Range(s) == {s[i] : i \in DOMAIN s}

(***************************************************************************)
(* Pipeline steps: { object, dependsOn }.                                  *)
(***************************************************************************)
StepShapes == [object : Objs, dependsOn : SUBSET Objs]

\* the steps of a full run: Accounts, and Contacts that depend on them
RunStepShapes == {[object |-> "Account", dependsOn |-> {}],
                  [object |-> "Contact", dependsOn |-> {"Account"}]}

PipelinesOf(shapes, n) == UNION {[1..k -> shapes] : k \in 1..n}

(***************************************************************************)
(* topoSortSteps: Kahn's algorithm over the dependsOn edges, smallest      *)
(* index first; the declaration order when a cycle is left over.           *)
(* The result is the sequence of indices into steps.                       *)
(***************************************************************************)
\* adj[j] contains i: step j produces an object step i depends on
Adj(steps, j) ==
    {i \in DOMAIN steps : i # j /\ steps[j].object \in steps[i].dependsOn}

InDegree(steps, i) ==
    Cardinality({j \in DOMAIN steps : i \in Adj(steps, j)})

\* the largest index of the queue is taken
PickNext_Latest(q) == CHOOSE u \in q : \A v \in q : v <= u

\* q.sort((a, b) => a - b).shift(): the smallest index of the queue
PickNext(q) == Min(q)

RECURSIVE Kahn(_, _, _, _)
Kahn(steps, q, indeg, order) ==
    IF q = {} THEN order
    ELSE LET u == PickNext(q)
             indeg2 == [v \in DOMAIN steps |->
                          IF v \in Adj(steps, u) THEN indeg[v] - 1 ELSE indeg[v]]
             ready == {v \in Adj(steps, u) : indeg2[v] = 0}
         IN Kahn(steps, (q \ {u}) \cup ready, indeg2, Append(order, u))

\* the steps from the last declared to the first
DeclarationOrder_Reversed(steps) == [i \in 1..Len(steps) |-> Len(steps) + 1 - i]

DeclarationOrder(steps) == [i \in 1..Len(steps) |-> i]

\* the sort skipped: the steps as declared
TopoSortSteps_Declared(steps) == DeclarationOrder(steps)

\* what the queue loop placed is returned, cycle or not
TopoSortSteps_NoFallback(steps) ==
    LET indeg == [i \in DOMAIN steps |-> InDegree(steps, i)]
    IN Kahn(steps, {i \in DOMAIN steps : indeg[i] = 0}, indeg, <<>>)

TopoSortSteps(steps) ==
    LET indeg == [i \in DOMAIN steps |-> InDegree(steps, i)]
        q == {i \in DOMAIN steps : indeg[i] = 0}
        order == Kahn(steps, q, indeg, <<>>)
    IN IF Len(order) # Len(steps) THEN DeclarationOrder(steps) ELSE order

(***************************************************************************)
(* upsertIdMap with preferExisting: entries already in the store win.      *)
(***************************************************************************)
MergeMaps(winner, other) ==
    [k \in DOMAIN winner \cup DOMAIN other |->
        IF k \in DOMAIN winner THEN winner[k] ELSE other[k]]

\* the step's map replaces the bucket instead of being merged into it
UpsertIdMap_Overwrite(store, objectName, newMap, preferExisting) ==
    [store EXCEPT ![objectName] = newMap]

UpsertIdMap(store, objectName, newMap, preferExisting) ==
    LET current == store[objectName]
    IN [store EXCEPT ![objectName] =
          IF preferExisting THEN MergeMaps(current, newMap)
                            ELSE MergeMaps(newMap, current)]

EmptyMap == [k \in {} |-> Undef]


(***************************************************************************)
(* Records, seed data and mapping configurations.                          *)
(***************************************************************************)
Truthy(v) == v # Undef /\ v # Null /\ v # ""

\* a seed row: ExternalKey is the business key, ParentKey the parent's
SeedRecord(k, p) ==
    [f \in Fields |->
        CASE f = "ExternalKey" -> k
          [] f = "ParentKey"   -> p
          [] OTHER             -> Undef]

\* a root row and a child row of it
SeedRecords == {SeedRecord("k1", Undef), SeedRecord("k2", "k1")}

\* the data files of a step: up to MaxRecs rows, root rows before child rows
DataFiles ==
    {f \in UNION {[1..n -> SeedRecords] : n \in 0..MaxRecs} :
        \A i, j \in DOMAIN f :
            i < j => ~(Truthy(f[i].ParentKey) /\ ~Truthy(f[j].ParentKey))}

\* a reference entry of the mapping.  fromKind tells how the entry names its
\* key: "none" declaratively, "plain" by the legacy from
\* "idMaps.<fromObject>['${refKey}']", "guarded" by the legacy from
\* "idMaps.<X> && idMaps.<X>['${refKey}']".  keyKind is the declarative form:
\*   "paths"          refKey: [refKey] or refKey: [refKey, altKey]
\*   "path"           refKey: "<refKey>"
\*   "template"       template: "${<refKey>}"
\*   "refKeyTemplate" refKeyTemplate: "${<refKey>}"
RefEntryOn(field, refKey, refObject, onMissing, required, fromKind, fromObject) ==
    [field |-> field, refKey |-> refKey, refObject |-> refObject,
     onMissing |-> onMissing, required |-> required,
     fromKind |-> fromKind, fromObject |-> fromObject,
     keyKind |-> "paths", altKey |-> Undef]

KeyedBy(entry, keyKind, altKey) ==
    [entry EXCEPT !.keyKind = keyKind, !.altKey = altKey]

RefEntry(field, refObject, onMissing, required) ==
    RefEntryOn(field, "ParentKey", refObject, onMissing, required, "none", Undef)

ReferenceLists ==
    { <<>>,
      <<RefEntry("AccountId", Undef, "skip", TRUE)>>,
      <<RefEntry("AccountId", Undef, "error", FALSE)>>,
      <<RefEntry("AccountId", Undef, "skip", FALSE)>>,
      <<RefEntry("ParentId", Undef, "null", FALSE)>> }

MkCfg(mk, refs, req, uniq, op, api, bs) ==
    [matchKey |-> mk, references |-> refs, requiredFields |-> req,
     uniqueBy |-> uniq,
     strategy |-> [operation |-> op, api |-> api,
                   externalIdField |-> "ExternalKey", batchSize |-> bs]]

\* batchSize 0 stands for a strategy without batchSize
NoCfg == MkCfg(Undef, <<>>, <<>>, <<>>, "insert", "rest", 0)

CfgSet ==
    {c \in {MkCfg(mk, refs, req, uniq, op, api, bs) :
               mk \in {"ExternalKey", Undef}, refs \in ReferenceLists,
               req \in {<<>>, <<"ParentKey">>}, uniq \in {<<>>, <<"ExternalKey">>},
               op \in {"insert", "upsert"}, api \in {"rest", "composite"},
               bs \in {0, 1}} :
       LET plain == c.references = <<>> /\ c.requiredFields = <<>> /\ c.uniqueBy = <<>>
       IN /\ c.matchKey = Undef =>
                plain /\ c.strategy = NoCfg.strategy
          /\ c.strategy.api = "composite" =>
                plain /\ c.strategy.operation = "insert" /\ c.strategy.batchSize = 0
          /\ c.references # <<>> =>
                /\ c.requiredFields = <<>> /\ c.uniqueBy = <<>>
                /\ c.strategy.operation = "upsert" /\ c.strategy.batchSize = 0
          /\ c.requiredFields # <<>> =>
                /\ c.uniqueBy = <<>>
                /\ c.strategy.operation = "upsert" /\ c.strategy.batchSize = 0
          /\ c.uniqueBy # <<>> => c.strategy.operation = "upsert"}

(***************************************************************************)
(* lib/filters.js.  JavaScript values are records tagged by their type; a  *)
(* dotted path is the sequence of its segments, "" the empty sequence.     *)
(***************************************************************************)
JsUndefined == [t |-> "undefined"]
JsNull == [t |-> "null"]
JsBool(b) == [t |-> "boolean", b |-> b]
JsNum(n) == [t |-> "number", n |-> n, finite |-> TRUE]
JsNaN == [t |-> "number", n |-> 0, finite |-> FALSE]
JsStr(s) == [t |-> "string", s |-> s]
JsObj(props) == [t |-> "object", props |-> props]

\* a seed row as the object read from the data file, and back
JsRecord(rec) ==
    JsObj([f \in {g \in DOMAIN rec : rec[g] # Undef} |->
              IF rec[f] = Null THEN JsNull ELSE JsStr(rec[f])])

SeedRow(obj) ==
    [f \in Fields |->
        IF f \notin DOMAIN obj.props THEN Undef
        ELSE IF obj.props[f] = JsNull THEN Null
        ELSE obj.props[f].s]

\* the truthiness of a value
JsTruthy(v) ==
    CASE v.t = "boolean" -> v.b
      [] v.t = "number"  -> v.finite /\ v.n # 0
      [] v.t = "string"  -> v.s # ""
      [] v.t = "object"  -> TRUE
      [] OTHER           -> FALSE

\* o[k] of the reducer: o is truthy here
Prop(o, k) ==
    IF o.t = "object" /\ k \in DOMAIN o.props THEN o.props[k] ELSE JsUndefined

RECURSIVE Reduce(_, _)
Reduce(o, path) ==
    IF path = <<>> THEN o
    ELSE Reduce(IF JsTruthy(o) THEN Prop(o, Head(path)) ELSE JsUndefined, Tail(path))

\* only the first segment of the path is followed
Get_TopLevelOnly(rec, pathStr) ==
    IF pathStr = <<>> THEN JsUndefined ELSE Prop(rec, Head(pathStr))

\* get(rec, pathStr)
Get(rec, pathStr) ==
    IF pathStr = <<>> THEN JsUndefined ELSE Reduce(rec, pathStr)

\* the texts Number() reads as a number; "" reads as 0, other texts as NaN
TextNumbers == ("7" :> 7) @@ ("0" :> 0)

NotANumber == [finite |-> FALSE, n |-> 0]
Finite(n) == [finite |-> TRUE, n |-> n]

\* Number(v) for a v that is not a number
Number(v) ==
    CASE v.t = "null"    -> Finite(0)
      [] v.t = "boolean" -> Finite(IF v.b THEN 1 ELSE 0)
      [] v.t = "string"  -> IF v.s = "" THEN Finite(0)
                            ELSE IF v.s \in DOMAIN TextNumbers
                                 THEN Finite(TextNumbers[v.s])
                                 ELSE NotANumber
      [] OTHER           -> NotANumber

\* toNum(v)
ToNum(v) ==
    IF v.t = "number" THEN (IF v.finite THEN Finite(v.n) ELSE NotANumber)
    ELSE Number(v)

\* v === value
StrictEquals(v, value) ==
    /\ v.t = value.t
    /\ v.t # "object"
    /\ v # JsNaN
    /\ v = value

PathKinds == {"exists", "missing"}
CompareKinds == <<"gt", "gte", "lt", "lte">>
KnownKinds == {"all", "any", "not", "exists", "missing", "equals", "neq",
               "in", "nin", "regex", "gt", "gte", "lt", "lte",
               "contains", "startsWith", "endsWith", "length"}

\* if (spec.<kind>): the predicate object has the kind and its value is
\* truthy; of the values drawn here only the path "" is not
Has(spec, kind) ==
    /\ kind \in DOMAIN spec
    /\ kind \in PathKinds => spec[kind] # <<>>

\* an unknown predicate restricts
UnknownPredicate_False == FALSE

\* the value of a predicate object that has no known kind
UnknownPredicate == TRUE

\* String(v)
String(v) ==
    CASE v.t = "string"    -> v.s
      [] v.t = "number"    -> IF v.finite THEN ToString(v.n) ELSE "NaN"
      [] v.t = "boolean"   -> IF v.b THEN "true" ELSE "false"
      [] v.t = "null"      -> "null"
      [] v.t = "undefined" -> "undefined"
      [] v.t = "object"    -> "[object Object]"

\* str(val, ci) without ci
Str(val) == IF val = JsUndefined \/ val = JsNull THEN "" ELSE String(val)

\* the texts that the texts of the values drawn here are made of
TextPieces == {"", "a", "ab", "abc", "b", "bc", "c"}

\* s.includes(t), s.startsWith(t), s.endsWith(t)
TextIncludes(s, t) == \E p, q \in TextPieces : s = p \o t \o q
StartsWith(s, t) == \E q \in TextPieces : s = t \o q
EndsWith(s, t) == \E p \in TextPieces : s = p \o t

\* new RegExp(pattern).test(s), for the patterns ^a and c$
RegexTest(pattern, s) ==
    CASE pattern = "^a" -> StartsWith(s, "a")
      [] pattern = "c$" -> EndsWith(s, "c")

\* values.includes(v): strict equality, and NaN is found among NaN
ArrayIncludes(values, v) ==
    \E i \in DOMAIN values : StrictEquals(v, values[i]) \/ (v = JsNaN /\ values[i] = JsNaN)

\* the order in which matchPredicate tests the kinds of a predicate object
KindOrder ==
    <<"all", "any", "not", "exists", "missing", "equals", "neq", "in", "nin",
      "regex", "gt", "gte", "lt", "lte", "contains", "startsWith", "endsWith",
      "length">>

HasKnownKind(spec) == \E n \in DOMAIN KindOrder : Has(spec, KindOrder[n])

\* the kind tested last decides
DecidingKind_Last(spec) ==
    KindOrder[CHOOSE n \in DOMAIN KindOrder :
                 /\ Has(spec, KindOrder[n])
                 /\ \A m \in DOMAIN KindOrder : Has(spec, KindOrder[m]) => m <= n]

\* the kind whose test is the first to pass: its branch returns
DecidingKind(spec) ==
    KindOrder[Min({n \in DOMAIN KindOrder : Has(spec, KindOrder[n])})]

\* matchPredicate(rec, spec), for predicate objects without ci
RECURSIVE MatchPredicate(_, _)
MatchPredicate(rec, spec) ==
    IF ~HasKnownKind(spec) THEN UnknownPredicate
    ELSE LET kind == DecidingKind(spec)
             arg == spec[kind]
         IN CASE kind = "all" -> \A i \in DOMAIN arg : MatchPredicate(rec, arg[i])
              [] kind = "any" -> \E i \in DOMAIN arg : MatchPredicate(rec, arg[i])
              [] kind = "not" -> ~MatchPredicate(rec, arg)
              [] kind = "exists" ->
                   LET v == Get(rec, arg) IN v # JsUndefined /\ v # JsNull
              [] kind = "missing" ->
                   LET v == Get(rec, arg) IN v = JsUndefined \/ v = JsNull
              [] kind = "equals" -> StrictEquals(Get(rec, arg.field), arg.value)
              [] kind = "neq" -> ~StrictEquals(Get(rec, arg.field), arg.value)
              [] kind = "in" -> ArrayIncludes(arg.values, Get(rec, arg.field))
              [] kind = "nin" -> ~ArrayIncludes(arg.values, Get(rec, arg.field))
              [] kind = "regex" ->
                   LET v == Get(rec, arg.field)
                   IN IF v = JsUndefined \/ v = JsNull THEN FALSE
                      ELSE RegexTest(arg.pattern, String(v))
              [] kind \in Range(CompareKinds) ->
                   LET a == ToNum(Get(rec, arg.field))
                       b == ToNum(arg.value)
                   IN IF ~a.finite \/ ~b.finite THEN FALSE
                      ELSE (CASE kind = "gt"  -> a.n > b.n
                              [] kind = "gte" -> a.n >= b.n
                              [] kind = "lt"  -> a.n < b.n
                              [] kind = "lte" -> a.n <= b.n)
              [] kind \in {"contains", "startsWith", "endsWith"} ->
                   LET v == Get(rec, arg.field)
                   IN IF v = JsUndefined \/ v = JsNull THEN FALSE
                      ELSE (CASE kind = "contains"   -> TextIncludes(Str(v), Str(arg.value))
                              [] kind = "startsWith" -> StartsWith(Str(v), Str(arg.value))
                              [] kind = "endsWith"   -> EndsWith(Str(v), Str(arg.value)))
              [] kind = "length" ->
                   LET val == Get(rec, arg.field)
                       len == IF val = JsUndefined \/ val = JsNull THEN 0
                              ELSE Len(String(val))
                       op == IF arg.op = Undef THEN "eq" ELSE arg.op
                   IN CASE op = "eq"  -> len = arg.value
                        [] op = "neq" -> len # arg.value
                        [] op = "gt"  -> len > arg.value
                        [] op = "gte" -> len >= arg.value
                        [] op = "lt"  -> len < arg.value
                        [] op = "lte" -> len <= arg.value
                        [] OTHER      -> FALSE

\* a filter of a step: none (undefined, null or true), the boolean false,
\* one predicate object, or a list of predicate objects
NoFilter == [form |-> "none"]
FalseFilter == [form |-> "false"]
OneFilter(p) == [form |-> "one", pred |-> p]
ListFilter(ps) == [form |-> "list", preds |-> ps]

\* a filter that is no list filters nothing
FilterPreds_ListOnly(filterSpec) ==
    IF filterSpec.form = "list" THEN filterSpec.preds ELSE <<>>

\* preds: the list itself, or the list of the one predicate
FilterPreds(filterSpec) ==
    IF filterSpec.form = "list" THEN filterSpec.preds ELSE <<filterSpec.pred>>

\* applyFilter(records, filterSpec)
ApplyFilter(records, filterSpec) ==
    IF filterSpec.form = "none" THEN records
    ELSE IF filterSpec.form = "false" THEN <<>>
    ELSE LET preds == FilterPreds(filterSpec)
         IN SelectSeq(records,
                LAMBDA rec : \A n \in DOMAIN preds : MatchPredicate(rec, preds[n]))

\* the filters of the pipelines' steps: none, or top-level rows only
FilterSpecs == {NoFilter, OneFilter([missing |-> <<"ParentKey">>])}

\* the rows of a data file that the step's filter keeps
FilterRows(rawData, filterSpec) ==
    LET kept == ApplyFilter([i \in DOMAIN rawData |-> JsRecord(rawData[i])], filterSpec)
    IN [i \in DOMAIN kept |-> SeedRow(kept[i])]

(***************************************************************************)
(* lib/mapping/ref-solver.js                                               *)
(***************************************************************************)
\* "ParentId" -> the current object; "<Thing>Id" -> "Thing"; else none
InferTargetObject(field, currentObject) ==
    IF field = "ParentId" THEN currentObject
    ELSE IF \E t \in Objs : field = t \o "Id"
         THEN CHOOSE t \in Objs : field = t \o "Id"
         ELSE Undef

\* the outcome of resolveRef: thrown, or the value returned
Thrown == [thrown |-> TRUE, val |-> Undef]
Returned(v) == [thrown |-> FALSE, val |-> v]

\* the destructuring default: onMissing = "error" when the entry has none
OnMissingOf(entry) == IF entry.onMissing = Undef THEN "error" ELSE entry.onMissing

\* the required flag ignored: only the onMissing policy decides
OnMissingOutcome_PolicyOnly(entry, fallthrough) ==
    IF OnMissingOf(entry) = "error" THEN Thrown
    ELSE IF OnMissingOf(entry) = "null" THEN Returned(Null)
    ELSE IF OnMissingOf(entry) = "skip" THEN Returned(Undef)
    ELSE fallthrough

\* what resolveRef does with a missing key or a missing map entry
OnMissingOutcome(entry, fallthrough) ==
    IF entry.required \/ OnMissingOf(entry) = "error" THEN Thrown
    ELSE IF OnMissingOf(entry) = "null" THEN Returned(Null)
    ELSE IF OnMissingOf(entry) = "skip" THEN Returned(Undef)
    ELSE fallthrough

\* renderTemplate of "${path}": a null or undefined value renders as ""
RenderTemplate(record, path) ==
    IF record[path] = Undef \/ record[path] = Null THEN "" ELSE record[path]

\* firstNonEmpty(values)
RECURSIVE FirstNonEmpty(_)
FirstNonEmpty(values) ==
    IF Len(values) = 0 THEN Undef
    ELSE IF Truthy(Head(values)) THEN Head(values)
    ELSE FirstNonEmpty(Tail(values))

\* pickTemplate(entry): the first of refKey, template, keyTemplate and
\* compositeKeyTemplate the entry has; refKeyTemplate is not among them.
\* isString tells whether it is a string, placeholder whether the string
\* is "${<refKey>}" (it is the bare text of refKey otherwise)
PickTemplate(entry) ==
    CASE entry.keyKind = "path"     -> [isString |-> TRUE, placeholder |-> FALSE]
      [] entry.keyKind = "template" -> [isString |-> TRUE, placeholder |-> TRUE]
      [] OTHER                      -> [isString |-> FALSE, placeholder |-> FALSE]

\* the lookup key resolveRef computes, or the error it raises for it
LookupKey(entry, record) ==
    LET tpl == PickTemplate(entry)
    IN CASE entry.fromKind = "guarded" -> Thrown
         [] entry.fromKind = "plain" -> Returned(RenderTemplate(record, entry.refKey))
         [] tpl.isString ->
              \* a string without placeholders renders as itself
              Returned(IF tpl.placeholder THEN RenderTemplate(record, entry.refKey)
                       ELSE entry.refKey)
         [] entry.keyKind = "paths" ->
              Returned(FirstNonEmpty(
                  IF entry.altKey = Undef THEN <<record[entry.refKey]>>
                  ELSE <<record[entry.refKey], record[entry.altKey]>>))
         [] OTHER -> Thrown

\* the bucket of the store resolveRef looks the key up in
TargetObject(entry, currentObject) ==
    LET inferred == InferTargetObject(entry.field, currentObject)
    IN \* the legacy from names the bucket itself
       IF entry.fromKind = "plain" THEN entry.fromObject
       ELSE IF Truthy(entry.refObject) THEN entry.refObject
       ELSE IF Truthy(inferred) THEN inferred
       ELSE currentObject

Lookup(store, targetObject, keyValue) ==
    IF targetObject \in DOMAIN store /\ keyValue \in DOMAIN store[targetObject]
    THEN store[targetObject][keyValue] ELSE Undef

\* a map entry that is absent is returned as it is, whatever the policy
ResolveRef_NoEntryCheck(entry, record, store, currentObject) ==
    LET targetObject == TargetObject(entry, currentObject)
        key == LookupKey(entry, record)
        keyValue == key.val
        missingKey == keyValue = Undef \/ keyValue = Null \/ keyValue = ""
        lookedUp == IF ~Truthy(targetObject) THEN Thrown
                    ELSE Returned(Lookup(store, targetObject, keyValue))
    IN IF key.thrown THEN Thrown
       ELSE IF missingKey THEN OnMissingOutcome(entry, lookedUp)
       ELSE lookedUp

ResolveRef(entry, record, store, currentObject) ==
    LET targetObject == TargetObject(entry, currentObject)
        key == LookupKey(entry, record)
        keyValue == key.val
        missingKey == keyValue = Undef \/ keyValue = Null \/ keyValue = ""
        resolved == Lookup(store, targetObject, keyValue)
        lookedUp == IF ~Truthy(targetObject) THEN Thrown
                    ELSE IF ~Truthy(resolved)
                         THEN OnMissingOutcome(entry, Returned(resolved))
                         ELSE Returned(resolved)
    IN \* parseLegacyFrom does not match the guarded form, and an entry
       \* without refKey or template has no key: both raise
       IF key.thrown THEN Thrown
       ELSE IF missingKey THEN OnMissingOutcome(entry, lookedUp)
       ELSE lookedUp

\* the key field is cleared once its reference has been written
RECURSIVE ResolveReferences_ConsumeKey(_, _, _, _, _)
ResolveReferences_ConsumeKey(rec, references, store, currentObject, i) ==
    IF i > Len(references) THEN [thrown |-> FALSE, rec |-> rec]
    ELSE LET out == ResolveRef(references[i], rec, store, currentObject)
         IN IF out.thrown THEN [thrown |-> TRUE, rec |-> rec]
            ELSE ResolveReferences_ConsumeKey(
                     IF out.val # Undef
                     THEN [rec EXCEPT ![references[i].field] = out.val,
                                      ![references[i].refKey] = Undef]
                     ELSE rec,
                     references, store, currentObject, i + 1)

\* the field is assigned whatever resolveRef returned
WriteBack_Always(rec, field, val) == [rec EXCEPT ![field] = val]

\* "if (val !== undefined) rec[entry.field] = val"
WriteBack(rec, field, val) ==
    IF val # Undef THEN [rec EXCEPT ![field] = val] ELSE rec

\* resolveReferences: the entries in order, each on the record so far
RECURSIVE ResolveReferences(_, _, _, _, _)
ResolveReferences(rec, references, store, currentObject, i) ==
    IF i > Len(references) THEN [thrown |-> FALSE, rec |-> rec]
    ELSE LET out == ResolveRef(references[i], rec, store, currentObject)
         IN IF out.thrown THEN [thrown |-> TRUE, rec |-> rec]
            ELSE ResolveReferences(WriteBack(rec, references[i].field, out.val),
                                   references, store, currentObject, i + 1)

(***************************************************************************)
(* lib/loader.js: the helpers of insertAndMap.                             *)
(***************************************************************************)
\* a last slice shorter than n is left out
RECURSIVE Chunk_FullOnly(_, _)
Chunk_FullOnly(arr, n) ==
    IF Len(arr) < n THEN <<>>
    ELSE <<SubSeq(arr, 1, n)>> \o Chunk_FullOnly(SubSeq(arr, n + 1, Len(arr)), n)

\* chunk(arr, n)
RECURSIVE Chunk(_, _)
Chunk(arr, n) ==
    IF Len(arr) = 0 THEN <<>>
    ELSE IF Len(arr) <= n THEN <<arr>>
    ELSE <<SubSeq(arr, 1, n)>> \o Chunk(SubSeq(arr, n + 1, Len(arr)), n)

\* JSON.stringify of a field value, as join() then renders it
JsonStringify(v) ==
    IF v = Undef THEN ""
    ELSE IF v = Null THEN "null"
    ELSE "\"" \o v \o "\""

\* computeUniqKey(rec, fields)
RECURSIVE ComputeUniqKey(_, _)
ComputeUniqKey(rec, fields) ==
    IF Len(fields) = 0 THEN ""
    ELSE IF Len(fields) = 1 THEN JsonStringify(rec[fields[1]])
    ELSE JsonStringify(rec[fields[1]]) \o "|" \o ComputeUniqKey(rec, Tail(fields))

\* the guard never records a key as seen
UniquenessViolated_NeverSeen(records, uniqBy) == FALSE

\* the uniqueness guard: some composite key is seen twice
UniquenessViolated(records, uniqBy) ==
    /\ Len(uniqBy) > 0
    /\ \E i, j \in DOMAIN records :
          i < j /\ ComputeUniqKey(records[i], uniqBy) = ComputeUniqKey(records[j], uniqBy)

\* pruneRecordFields: fields the org does not have are dropped
PruneRecordFields(records, orgFields) ==
    [i \in DOMAIN records |->
        [f \in Fields |-> IF f \in orgFields THEN records[i][f] ELSE Undef]]

\* assertRequiredFields fails: a listed field is absent or null
RequiredFieldMissing(rec, req) ==
    \E i \in DOMAIN req : rec[req[i]] = Undef \/ rec[req[i]] = Null

\* the required fields are asserted on the records as they were shaped
ValidatedRecords_BeforePruning(transformedRecord, pruned) == transformedRecord

\* the records the required-field loop runs over: "for (const rec of pruned)"
ValidatedRecords(transformedRecord, pruned) == pruned

BatchSizeOf(cfg) ==
    IF cfg.strategy.batchSize = 0 THEN DefaultBatchSize ELSE cfg.strategy.batchSize

(***************************************************************************)
(* The target platform: the records an org holds, and what insert, upsert  *)
(* and find do to them.  A record is [obj, key, id]; key is its value of   *)
(* the external-id field.                                                  *)
(***************************************************************************)
Matches(org, obj, key) == {r \in org : r.obj = obj /\ r.key = key}

NewId(org, obj, key) ==
    "id-" \o obj \o "-" \o key \o "-" \o ToString(Cardinality(Matches(org, obj, key)) + 1)

\* a result row; key is the row's external-id value, which the result rows
\* of a bulk job carry with the other input columns
RowResult(success, created, id, key) ==
    [success |-> success, created |-> created, id |-> id, key |-> key]

\* one row of a batch: the platform accepts it (ok) or rejects it; an upsert
\* whose external id matches several records is rejected
SaveRow(org, obj, op, key, ok) ==
    LET m == Matches(org, obj, key)
        id == NewId(org, obj, key)
    IN IF ~ok \/ (op = "upsert" /\ Cardinality(m) > 1)
       THEN [org |-> org, result |-> RowResult(FALSE, FALSE, Undef, key)]
       ELSE IF op = "upsert" /\ m # {}
       THEN [org |-> org,
             result |-> RowResult(TRUE, FALSE, (CHOOSE r \in m : TRUE).id, key)]
       ELSE [org |-> org \cup {[obj |-> obj, key |-> key, id |-> id]},
             result |-> RowResult(TRUE, TRUE, id, key)]

\* the rows of a batch in order: the org afterwards and one result per row
RECURSIVE SaveBatch(_, _, _, _, _, _, _)
SaveBatch(org, obj, op, batch, oks, i, results) ==
    IF i > Len(batch) THEN [org |-> org, results |-> results]
    ELSE LET s == SaveRow(org, obj, op, batch[i]["ExternalKey"], oks[i])
         IN SaveBatch(s.org, obj, op, batch, oks, i + 1, Append(results, s.result))

\* conn.sobject(obj).find({ext: {$in: keys}}, "Id,ext")
Find(org, obj, keys) == {r \in org : r.obj = obj /\ r.key \in keys}

\* conn.sobject(obj).find({Id: {$in: ids}}, "Id")
FindById(org, obj, ids) == {r \in org : r.obj = obj /\ r.id \in ids}

(***************************************************************************)
(* lib/sf.js: commitREST and commitComposite, given the platform results.  *)
(***************************************************************************)
\* the indices of s whose element satisfies Test, in order
RECURSIVE IndicesWhere(_, _, _)
IndicesWhere(s, Test(_), i) ==
    IF i > Len(s) THEN <<>>
    ELSE (IF Test(s[i]) THEN <<i>> ELSE <<>>) \o IndicesWhere(s, Test, i + 1)

\* the upsert guard of commitREST and commitBulk: a row without a value at
\* the external-id field
UpsertGuardFails(batch, strategy) ==
    strategy.operation = "upsert" /\ strategy.api \in {"rest", "bulk"}
    /\ \E i \in DOMAIN batch : ~Truthy(batch[i][strategy.externalIdField])

\* commitBulk refuses every operation but insert and upsert
BulkOperationRefused(strategy) ==
    strategy.api = "bulk" /\ strategy.operation \notin {"insert", "upsert"}

\* the platform call a committer issues for a strategy: every operation
\* that is not upsert goes to insert
PlatformOperation(strategy) ==
    IF strategy.operation = "upsert" THEN "upsert" ELSE "insert"

\* getKey(row, extField, fallback, i): the first of the row's external id,
\* the fallback and "row#i" that is neither null nor undefined (the rows
\* of a batch carry no Id)
GetKey(row, extField, fallback, i) ==
    IF row[extField] \notin {Undef, Null} THEN row[extField]
    ELSE IF fallback \notin {Undef, Null} THEN fallback
    ELSE "row#" \o ToString(i)

\* what commit() returns to insertAndMap; a failure entry of the insert
\* path has no key property
CommitREST(org, obj, batch, strategy, results) ==
    IF strategy.operation # "upsert"
    THEN LET okIdx == IndicesWhere(results, LAMBDA r : r.success, 1)
             koIdx == IndicesWhere(results, LAMBDA r : ~r.success, 1)
         IN [isArray |-> FALSE,
             created |-> [n \in DOMAIN okIdx |->
                            [index |-> n - 1, id |-> results[okIdx[n]].id]],
             updated |-> <<>>,
             failures |-> [n \in DOMAIN koIdx |->
                            [index |-> n - 1, id |-> results[koIdx[n]].id,
                             key |-> Undef]],
             hasProcessedRecords |-> FALSE,
             processedRecords |-> {}]
    ELSE LET entry(i) == [index |-> i - 1, id |-> results[i].id]
             crIdx == IndicesWhere(results, LAMBDA r : r.success /\ r.created, 1)
             upIdx == IndicesWhere(results, LAMBDA r : r.success /\ ~r.created, 1)
             koIdx == IndicesWhere(results, LAMBDA r : ~r.success, 1)
             verifyExternalIds ==
                 {batch[i][strategy.externalIdField] :
                     i \in {j \in DOMAIN results : results[j].success}}
         IN [isArray |-> FALSE,
             created |-> [n \in DOMAIN crIdx |-> entry(crIdx[n])],
             updated |-> [n \in DOMAIN upIdx |-> entry(upIdx[n])],
             failures |-> [n \in DOMAIN koIdx |->
                            [index |-> koIdx[n] - 1, id |-> results[koIdx[n]].id,
                             key |-> GetKey(batch[koIdx[n]], strategy.externalIdField,
                                            results[koIdx[n]].id, koIdx[n] - 1)]],
             hasProcessedRecords |-> TRUE,
             processedRecords |->
                 {[Id |-> r.id, ext |-> r.key] : r \in Find(org, obj, verifyExternalIds)}]

\* commitComposite returns the bare array of results
CommitComposite(results) ==
    [isArray |-> TRUE, created |-> <<>>, updated |-> <<>>, failures |-> <<>>,
     hasProcessedRecords |-> FALSE, processedRecords |-> {}]

\* the index of the last row of rows with key k (a later Map.set overwrites)
LastWithKey(rows, k) ==
    CHOOSE n \in DOMAIN rows :
        /\ rows[n].key = k
        /\ \A m \in DOMAIN rows : rows[m].key = k => m <= n

\* the per-row outcomes commitBulk aligns to the batch: by external id for an
\* upsert, by position in successfulResults for an insert
BulkAligned(batch, strategy, successfulResults, i) ==
    IF strategy.operation = "upsert"
    THEN LET key == batch[i][strategy.externalIdField]
         IN IF \E n \in DOMAIN successfulResults : successfulResults[n].key = key
            THEN LET sr == successfulResults[LastWithKey(successfulResults, key)]
                 IN RowResult(TRUE, sr.created, sr.id, key)
            ELSE RowResult(FALSE, FALSE, Undef, key)
    ELSE IF i <= Len(successfulResults)
         THEN RowResult(TRUE, successfulResults[i].created, successfulResults[i].id,
                        batch[i][strategy.externalIdField])
         ELSE RowResult(FALSE, FALSE, Undef, batch[i][strategy.externalIdField])

\* the verification query left out: the batch rows zipped with the success
\* rows in the order the job returned them
CommitBulk_Positional(org, obj, batch, strategy, results) ==
    LET successfulResults == SelectSeq(results, LAMBDA r : r.success)
        koIdx == IndicesWhere(results, LAMBDA r : ~r.success, 1)
    IN [isArray |-> FALSE,
        created |-> [n \in DOMAIN successfulResults |->
                        [index |-> n - 1, id |-> successfulResults[n].id]],
        updated |-> <<>>,
        failures |-> [n \in DOMAIN koIdx |-> [index |-> koIdx[n] - 1, id |-> Undef]],
        hasProcessedRecords |-> TRUE,
        processedRecords |->
            {[Id |-> successfulResults[n].id,
              ext |-> batch[n][strategy.externalIdField]] :
                 n \in DOMAIN successfulResults}]

\* commitBulk, given the rows of the job in the order the job returned them
CommitBulk(org, obj, batch, strategy, results) ==
    LET successfulResults == SelectSeq(results, LAMBDA r : r.success)
        aligned == [i \in DOMAIN batch |->
                       BulkAligned(batch, strategy, successfulResults, i)]
        entry(i) == [index |-> i - 1, id |-> aligned[i].id]
        crIdx == IndicesWhere(aligned,
                     LAMBDA r : r.success /\ (strategy.operation = "insert" \/ r.created), 1)
        upIdx == IndicesWhere(aligned,
                     LAMBDA r : r.success /\ ~(strategy.operation = "insert" \/ r.created), 1)
        koIdx == IndicesWhere(aligned, LAMBDA r : ~r.success, 1)
        exts == {batch[i][strategy.externalIdField] :
                    i \in {j \in DOMAIN aligned : aligned[j].success}}
        ids == {aligned[i].id : i \in {j \in DOMAIN aligned : aligned[j].success}}
    IN [isArray |-> FALSE,
        created |-> [n \in DOMAIN crIdx |-> entry(crIdx[n])],
        updated |-> [n \in DOMAIN upIdx |-> entry(upIdx[n])],
        failures |-> [n \in DOMAIN koIdx |-> entry(koIdx[n])],
        hasProcessedRecords |-> TRUE,
        processedRecords |->
            IF strategy.operation = "upsert"
            THEN {[Id |-> r.id, ext |-> r.key] : r \in Find(org, obj, exts)}
            ELSE {[Id |-> r.id, ext |-> Undef] : r \in FindById(org, obj, ids)}]

Commit(org, obj, batch, strategy, results) ==
    IF strategy.api = "composite" THEN CommitComposite(results)
    ELSE IF strategy.api = "bulk" THEN CommitBulk(org, obj, batch, strategy, results)
    ELSE CommitREST(org, obj, batch, strategy, results)

(***************************************************************************)
(* lib/loader.js: what insertAndMap does with the result of one commit.    *)
(***************************************************************************)
\* reading results.failures.length of an array throws a TypeError
ReconcileThrows(res) == res.isArray

\* the element of arr when results.processedRecords is not set
UndefinedResult == [defined |-> FALSE, success |-> FALSE, id |-> Undef]

\* an element of arr that is a queried record {Id}: no success, id or upsertedId
QueriedRecord == [defined |-> TRUE, success |-> FALSE, id |-> Undef]

\* every row of the batch gets an entry, whatever its result
ReconcileBatch_EveryRow(res, batch, strategy, matchKey) ==
    [k \in {batch[i][matchKey] : i \in DOMAIN batch} |->
        IF \E rec \in res.processedRecords : rec.ext = k
        THEN (CHOOSE rec \in res.processedRecords : rec.ext = k).Id
        ELSE Undef]

\* the entries a batch adds to the step's idMap
ReconcileBatch(res, batch, strategy, matchKey) ==
    IF strategy.operation = "upsert"
    THEN LET processed == IF Len(res.failures) > 0 THEN {} ELSE res.processedRecords
             recs == {rec \in processed : Truthy(rec.Id) /\ Truthy(rec.ext)}
         IN [k \in {rec.ext : rec \in recs} |->
                (CHOOSE rec \in recs : rec.ext = k).Id]
    ELSE \* a REST insert result carries no processedRecords: arr is [undefined];
         \* a bulk insert result carries the records its verification query found
         LET arr == IF Len(res.failures) > 0 THEN <<>>
                    ELSE IF res.hasProcessedRecords
                    THEN [i \in 1..Cardinality(res.processedRecords) |-> QueriedRecord]
                    ELSE <<UndefinedResult>>
             hit == {i \in DOMAIN arr :
                        /\ arr[i].defined
                        /\ (arr[i].success \/ Truthy(arr[i].id))
                        /\ Truthy(arr[i].id)}
             last(k) == CHOOSE i \in hit :
                           /\ batch[i][matchKey] = k
                           /\ \A j \in hit : batch[j][matchKey] = k => j <= i
         IN [k \in {batch[i][matchKey] : i \in hit} |-> arr[last(k)].id]

\* the batch's entries written straight into the shared store
ReconcileStore_Shared(store, obj, batchMap) ==
    [store EXCEPT ![obj] = MergeMaps(batchMap, @)]

\* what the reconciliation of a batch does to the shared store: nothing
ReconcileStore(store, obj, batchMap) == store

\* all remaining batches submitted at once
Submit_All(next, n) == next..n

\* the batches submitted once the batches before next are reconciled
Submit(next, n) == IF next <= n THEN {next} ELSE {}

\* the error logged and the step loop resumed
AfterThrow_Continue == "loop"

\* where main() goes after a throw: main().catch logs and exits
AfterThrow == "halted"

VARIABLES
    steps,          \* pipelineCfg.steps
    envDryRun,      \* DRY_RUN
    pipelineDryRun, \* pipelineCfg.dryRun
    pc,             \* position of main()
    stepsOrdered,   \* topoSortSteps(pipelineCfg.steps), as indices into steps
    stepIndex,      \* number of steps started
    executed,       \* indices of the steps started, in the order they started
    idMaps,         \* the identifier-map store of the run
    fatal,          \* the error main().catch received, "none" when none
    cur,            \* insertAndMap's locals for the step in progress
    org             \* the records the target org holds

vars == <<steps, envDryRun, pipelineDryRun, pc, stepsOrdered, stepIndex,
          executed, idMaps, fatal, cur, org>>

\* only the environment flag makes a dry run
EffectiveDryRun_EnvOnly == envDryRun

EffectiveDryRun == envDryRun \/ pipelineDryRun

\* the locals of insertAndMap when it is entered
NewCur(obj, cfg, records) ==
    [stage |-> "entered", obj |-> obj, cfg |-> cfg, records |-> records,
     pruned |-> <<>>, batches |-> <<>>, idMap |-> EmptyMap,
     issued |-> {}, inflight |-> {}, reconciled |-> {}, rowResult |-> <<>>]

NoStep == [NewCur(Undef, NoCfg, <<>>) EXCEPT !.stage = "none"]

InitRun(pipelines) ==
    /\ steps \in pipelines
    /\ envDryRun \in BOOLEAN
    /\ pipelineDryRun \in BOOLEAN
    /\ pc = "start"
    /\ stepsOrdered = <<>>
    /\ stepIndex = 0
    /\ executed = <<>>
    /\ idMaps = [o \in Objs |-> EmptyMap]
    /\ fatal = "none"
    /\ cur = NoStep
    /\ org = {}

Init == InitRun(PipelinesOf(RunStepShapes, MaxSteps))

InitSched ==
    /\ InitRun(PipelinesOf(StepShapes, MaxSchedSteps))
    /\ EffectiveDryRun

Throw(kind) ==
    /\ pc' = AfterThrow
    /\ fatal' = kind

\* main() up to the step loop: connection, snapshot, step ordering
MainStart ==
    /\ pc = "start"
    /\ \E snapshotOk \in BOOLEAN :
         IF ~envDryRun /\ ~snapshotOk
         THEN /\ Throw("SchemaError")
              /\ UNCHANGED stepsOrdered
         ELSE /\ pc' = "loop"
              /\ stepsOrdered' = TopoSortSteps(steps)
              /\ UNCHANGED fatal
    /\ UNCHANGED <<steps, envDryRun, pipelineDryRun, stepIndex, executed, idMaps,
                   cur, org>>

\* one iteration of the step loop in dry-run mode
DryRunStep ==
    /\ pc = "loop"
    /\ EffectiveDryRun
    /\ stepIndex < Len(stepsOrdered)
    /\ stepIndex' = stepIndex + 1
    /\ executed' = Append(executed, stepsOrdered[stepIndex + 1])
    /\ UNCHANGED <<steps, envDryRun, pipelineDryRun, pc, stepsOrdered, idMaps,
                   fatal, cur, org>>

\* an iteration of the step loop up to insertAndMap's first await, for a
\* step whose mapping is one of cfgs
StartStepWith(cfgs) ==
    /\ pc = "loop"
    /\ ~EffectiveDryRun
    /\ stepIndex < Len(stepsOrdered)
    /\ \E cfg \in cfgs, rawData \in DataFiles, filter \in FilterSpecs :
         LET idx == stepsOrdered[stepIndex + 1]
             finalData == FilterRows(rawData, filter)
             c == NewCur(steps[idx].object, cfg, finalData)
         IN /\ stepIndex' = stepIndex + 1
            /\ executed' = Append(executed, idx)
            /\ IF ~Truthy(cfg.matchKey)
               THEN /\ Throw("ConfigurationError")
                    /\ cur' = c
               ELSE /\ pc' = "meta"
                    /\ cur' = [c EXCEPT !.stage = "meta"]
                    /\ UNCHANGED fatal
    /\ UNCHANGED <<steps, envDryRun, pipelineDryRun, stepsOrdered, idMaps, org>>

StartStep == StartStepWith(CfgSet)

\* commit() is entered for the batches in toIssue
IssueBatches(c, toIssue) ==
    IF \E b \in toIssue : UpsertGuardFails(c.batches[b], c.cfg.strategy)
    THEN /\ Throw("CommitGuardError")
         /\ cur' = [c EXCEPT !.issued = @ \cup toIssue, !.stage = "thrown"]
    ELSE LET inflight == c.inflight \cup toIssue
         IN /\ cur' = [c EXCEPT !.issued = @ \cup toIssue, !.inflight = inflight,
                                !.stage = IF inflight = {} THEN "returned" ELSE "commit"]
            /\ pc' = IF inflight = {} THEN "returned" ELSE "commit"
            /\ UNCHANGED fatal

\* insertAndMap from the metadata load to the first commit call
Prepare ==
    /\ pc = "meta"
    /\ \E metaOk \in BOOLEAN, schemaOk \in BOOLEAN,
          orgFields \in {Fields, Fields \ {"ExternalKey"}} :
         LET cfg == cur.cfg
             tr == [i \in DOMAIN cur.records |->
                      ResolveReferences(cur.records[i], cfg.references, idMaps, cur.obj, 1)]
             transformedRecord == [i \in DOMAIN tr |-> tr[i].rec]
             pruned == PruneRecordFields(transformedRecord, orgFields)
             batches == Chunk(pruned, BatchSizeOf(cfg))
             c == [cur EXCEPT !.pruned = pruned, !.batches = batches,
                              !.rowResult = [i \in DOMAIN pruned |-> "pending"]]
         IN IF ~metaOk
            THEN Throw("SchemaError") /\ cur' = [cur EXCEPT !.stage = "nometa"]
            ELSE IF \E i \in DOMAIN tr : tr[i].thrown
            THEN Throw("ResolutionError") /\ cur' = [cur EXCEPT !.stage = "resolving"]
            ELSE IF ~schemaOk
            THEN Throw("SchemaError") /\ cur' = [c EXCEPT !.stage = "schema"]
            ELSE IF \E i \in DOMAIN pruned :
                       RequiredFieldMissing(ValidatedRecords(transformedRecord, pruned)[i],
                                            cfg.requiredFields)
            THEN Throw("ValidationError") /\ cur' = [c EXCEPT !.stage = "validation"]
            ELSE IF UniquenessViolated(pruned, cfg.uniqueBy)
            THEN Throw("ValidationError") /\ cur' = [c EXCEPT !.stage = "validation"]
            ELSE IssueBatches(c, Submit(1, Len(batches)))
    /\ UNCHANGED <<steps, envDryRun, pipelineDryRun, stepsOrdered, stepIndex,
                   executed, idMaps, org>>

RowOffset(c, b) == (b - 1) * BatchSizeOf(c.cfg)

\* the commit of a batch returns and insertAndMap reconciles it
CommitReturn ==
    /\ pc = "commit"
    /\ \E b \in cur.inflight :
       \E oks \in [1..Len(cur.batches[b]) -> BOOLEAN] :
         LET batch == cur.batches[b]
             strategy == cur.cfg.strategy
             saved == SaveBatch(org, cur.obj, PlatformOperation(strategy), batch, oks, 1, <<>>)
             res == Commit(saved.org, cur.obj, batch, strategy, saved.results)
             batchMap == ReconcileBatch(res, batch, strategy, cur.cfg.matchKey)
             rr == [i \in DOMAIN cur.rowResult |->
                      IF i - RowOffset(cur, b) \in DOMAIN batch
                      THEN (IF saved.results[i - RowOffset(cur, b)].success
                            THEN saved.results[i - RowOffset(cur, b)].id ELSE "failed")
                      ELSE cur.rowResult[i]]
             c == [cur EXCEPT !.rowResult = rr, !.inflight = @ \ {b}]
         IN /\ org' = saved.org
            /\ IF ReconcileThrows(res)
               THEN /\ Throw("TypeError")
                    /\ cur' = [c EXCEPT !.stage = "thrown"]
                    /\ UNCHANGED idMaps
               ELSE /\ idMaps' = ReconcileStore(idMaps, cur.obj, batchMap)
                    /\ IssueBatches([c EXCEPT !.idMap = MergeMaps(batchMap, @),
                                              !.reconciled = @ \cup {b}],
                                    Submit(b + 1, Len(cur.batches)) \ cur.issued)
    /\ UNCHANGED <<steps, envDryRun, pipelineDryRun, stepsOrdered, stepIndex, executed>>

\* the platform call of a batch fails as a whole: the write itself, or the
\* verification query after an upsert was applied
CommitThrow ==
    /\ pc = "commit"
    /\ cur.cfg.strategy.api = "rest"
    /\ \E b \in cur.inflight :
       \E oks \in [1..Len(cur.batches[b]) -> BOOLEAN], applied \in BOOLEAN :
         LET strategy == cur.cfg.strategy
             saved == SaveBatch(org, cur.obj, PlatformOperation(strategy), cur.batches[b],
                                oks, 1, <<>>)
         IN /\ applied => (strategy.operation = "upsert"
                           /\ \E i \in DOMAIN saved.results : saved.results[i].success)
            /\ org' = IF applied THEN saved.org ELSE org
            /\ cur' = [cur EXCEPT !.inflight = @ \ {b}, !.stage = "thrown"]
            /\ Throw("TransportError")
    /\ UNCHANGED <<steps, envDryRun, pipelineDryRun, stepsOrdered, stepIndex,
                   executed, idMaps>>

\* the counts main() reports for the step: okCount is the number of keys of
\* the idMap insertAndMap returned, errCount what is left of finalData.length
OkCount(c) == Cardinality(DOMAIN c.idMap)

ErrCount(c) ==
    IF Len(c.records) - OkCount(c) > 0 THEN Len(c.records) - OkCount(c) ELSE 0

Attempted(c) == Len(c.records)

\* insertAndMap has returned: main() merges the step's idMap into the store
FinishStep ==
    /\ pc = "returned"
    /\ idMaps' = UpsertIdMap(idMaps, cur.obj, cur.idMap, TRUE)
    /\ cur' = NoStep
    /\ pc' = "loop"
    /\ UNCHANGED <<steps, envDryRun, pipelineDryRun, stepsOrdered, stepIndex,
                   executed, fatal, org>>

\* the loop is over: the run report is written and the log closed
Finish ==
    /\ pc = "loop"
    /\ stepIndex = Len(stepsOrdered)
    /\ pc' = "done"
    /\ UNCHANGED <<steps, envDryRun, pipelineDryRun, stepsOrdered, stepIndex,
                   executed, idMaps, fatal, cur, org>>

Next ==
    \/ MainStart
    \/ DryRunStep
    \/ StartStep
    \/ Prepare
    \/ CommitReturn
    \/ CommitThrow
    \/ FinishStep
    \/ Finish

Spec == Init /\ [][Next]_vars

NextSched == MainStart \/ DryRunStep \/ Finish

\* mappings whose identify.matchKey is another field than the strategy's
\* externalIdField
IdentityCfgSet ==
    {MkCfg("ParentKey", <<>>, <<>>, <<>>, op, "rest", 0) : op \in {"insert", "upsert"}}

StartStepIdentity == StartStepWith(IdentityCfgSet)

NextIdentity ==
    \/ MainStart
    \/ DryRunStep
    \/ StartStepIdentity
    \/ Prepare
    \/ CommitReturn
    \/ CommitThrow
    \/ FinishStep
    \/ Finish

\* the runs of pipelines whose steps use the mappings of IdentityCfgSet
SpecIdentity == Init /\ [][NextIdentity]_vars

\* mappings with validate.requiredFields: the business key, the parent's
\* key, or a reference that resolves to null when the record has no parent
RequiredCfgSet ==
    {MkCfg("ExternalKey", <<>>, <<f>>, <<>>, "upsert", "rest", 0) :
        f \in {"ExternalKey", "ParentKey"}}
        \cup {MkCfg("ExternalKey", <<RefEntry("ParentId", Undef, "null", FALSE)>>,
                    <<"ParentId">>, <<>>, "upsert", "rest", 0)}

StartStepRequired == StartStepWith(RequiredCfgSet)

NextRequired ==
    \/ MainStart
    \/ DryRunStep
    \/ StartStepRequired
    \/ Prepare
    \/ CommitReturn
    \/ CommitThrow
    \/ FinishStep
    \/ Finish

\* the runs of pipelines whose steps use the mappings of RequiredCfgSet
SpecRequired == Init /\ [][NextRequired]_vars

SpecSched == InitSched /\ [][NextSched]_vars

(***************************************************************************)
(* The dry run with what it shows: the step loop of main() in dry-run      *)
(* mode, keeping the sample of records each step logs.                     *)
(***************************************************************************)
SampleSize == 3

InitPreview ==
    /\ Init
    /\ EffectiveDryRun

\* one iteration of the step loop in dry-run mode: the data file is read
\* and filtered, and the first records of the result are logged
DryRunPreview ==
    /\ pc = "loop"
    /\ EffectiveDryRun
    /\ stepIndex < Len(stepsOrdered)
    /\ \E cfg \in CfgSet, rawData \in DataFiles, filter \in FilterSpecs :
         LET idx == stepsOrdered[stepIndex + 1]
             finalData == FilterRows(rawData, filter)
             sample == SubSeq(finalData, 1, Min({SampleSize, Len(finalData)}))
         IN /\ stepIndex' = stepIndex + 1
            /\ executed' = Append(executed, idx)
            /\ cur' = [stage |-> "previewed", obj |-> steps[idx].object,
                       cfg |-> cfg, records |-> finalData, sample |-> sample]
    /\ UNCHANGED <<steps, envDryRun, pipelineDryRun, pc, stepsOrdered, idMaps,
                   fatal, org>>

NextPreview ==
    \/ MainStart
    \/ DryRunPreview
    \/ Finish

SpecPreview == InitPreview /\ [][NextPreview]_vars

(***************************************************************************)
(* The filter on its own: applyFilter on records with numbers, texts,      *)
(* booleans, nulls and nested objects, for predicate objects of every      *)
(* modelled kind, and again with the predicate wrapped in a list.          *)
(***************************************************************************)
EmptyObject == JsObj(EmptyMap)

\* the values of a field x the comparisons read
NumericValues ==
    {JsNull, JsStr(""), JsStr("abc"), JsStr("7"), JsBool(TRUE), JsBool(FALSE),
     JsNum(0), JsNum(5), JsNaN}

\* the values of a field a the path a.b goes through
NestedValues ==
    {JsNull, JsNum(0), JsStr("s"), EmptyObject,
     JsObj([k \in {"b"} |-> JsNum(1)]), JsObj([k \in {"b"} |-> JsNull])}

FilterRecords ==
    {EmptyObject}
        \cup {JsObj([k \in {"x"} |-> v]) : v \in NumericValues}
        \cup {JsObj([k \in {"a"} |-> v]) : v \in NestedValues}

Comparison(op, path, value) == [k \in {op} |-> [field |-> path, value |-> value]]

ComparePredicates ==
    {Comparison(op, <<"x">>, v) :
        op \in Range(CompareKinds), v \in {JsNum(0), JsNum(5), JsNull, JsStr("abc")}}

PathPredicates ==
    {[k \in {kind} |-> path] :
        kind \in PathKinds, path \in {<<"x">>, <<"a">>, <<"a", "b">>, <<>>}}

EqualityPredicates ==
    {Comparison(kind, <<"x">>, JsNum(5)) : kind \in {"equals", "neq"}}

\* predicate objects without a known kind: {} and {between: 1}
UnknownPredicates == {EmptyMap, [k \in {"between"} |-> JsNum(1)]}

Wrap(kind, arg) == [k \in {kind} |-> arg]

WrappedPredicates ==
    {Wrap(w, <<p>>) : w \in {"all", "any"},
                      p \in UnknownPredicates \cup {Wrap("missing", <<"a", "b">>)}}
        \cup {Wrap("not", p) :
                 p \in UnknownPredicates \cup {Wrap("exists", <<"a", "b">>)}}
        \cup {Wrap("not", Wrap("not", p)) : p \in UnknownPredicates}
        \cup {Wrap("all", <<Wrap("missing", <<"a">>), p>>) : p \in UnknownPredicates}
        \cup {Wrap("any", <<>>), Wrap("all", <<>>)}

Predicates ==
    ComparePredicates \cup PathPredicates \cup EqualityPredicates
        \cup UnknownPredicates \cup WrappedPredicates

FilterInputs ==
    {NoFilter, FalseFilter}
        \cup {OneFilter(p) : p \in Predicates}
        \cup {ListFilter(<<p, q>>) :
                 p \in {Wrap("exists", <<"x">>)},
                 q \in {Comparison("gt", <<"x">>, JsNum(0)), Wrap("between", JsNum(1))}}

InitFilter ==
    /\ \E records \in UNION {[1..n -> FilterRecords] : n \in 0..MaxRecs},
          filterSpec \in FilterInputs :
         cur = [records |-> records, filter |-> filterSpec,
                out |-> <<>>, wrapped |-> <<>>]
    /\ steps = <<[object |-> "Account", dependsOn |-> {}]>>
    /\ idMaps = [o \in Objs |-> EmptyMap]
    /\ envDryRun = FALSE
    /\ pipelineDryRun = FALSE
    /\ pc = "filter"
    /\ stepsOrdered = <<1>>
    /\ stepIndex = 1
    /\ executed = <<1>>
    /\ fatal = "none"
    /\ org = {}

\* the step loop's call of applyFilter
FilterOnce ==
    /\ pc = "filter"
    /\ pc' = "filtered"
    /\ cur' = [cur EXCEPT !.out = ApplyFilter(cur.records, cur.filter)]
    /\ UNCHANGED <<steps, envDryRun, pipelineDryRun, stepsOrdered, stepIndex,
                   executed, idMaps, fatal, org>>

\* applyFilter called with the list of the one predicate
FilterWrapped ==
    /\ pc = "filtered"
    /\ cur.filter.form = "one"
    /\ pc' = "wrapped"
    /\ cur' = [cur EXCEPT !.wrapped =
                  ApplyFilter(cur.records, ListFilter(<<cur.filter.pred>>))]
    /\ UNCHANGED <<steps, envDryRun, pipelineDryRun, stepsOrdered, stepIndex,
                   executed, idMaps, fatal, org>>

NextFilter == FilterOnce \/ FilterWrapped

SpecFilter == InitFilter /\ [][NextFilter]_vars

(***************************************************************************)
(* matchPredicate on predicate objects that carry two kinds, for records   *)
(* with a field x.                                                         *)
(***************************************************************************)
\* the argument a predicate object gives a kind
ArgumentOf(kind) ==
    CASE kind = "all" -> <<Wrap("exists", <<"x">>)>>
      [] kind = "any" -> <<Wrap("missing", <<"x">>)>>
      [] kind = "not" -> Wrap("exists", <<"x">>)
      [] kind \in PathKinds -> <<"x">>
      [] kind \in {"equals", "neq"} -> [field |-> <<"x">>, value |-> JsStr("abc")]
      [] kind \in {"in", "nin"} ->
           [field |-> <<"x">>, values |-> <<JsStr("abc"), JsNum(5)>>]
      [] kind = "regex" -> [field |-> <<"x">>, pattern |-> "^a"]
      [] kind \in {"gt", "lte"} -> [field |-> <<"x">>, value |-> JsNum(0)]
      [] kind \in {"gte", "lt"} -> [field |-> <<"x">>, value |-> JsNum(5)]
      [] kind = "contains" -> [field |-> <<"x">>, value |-> JsStr("b")]
      [] kind = "startsWith" -> [field |-> <<"x">>, value |-> JsStr("a")]
      [] kind = "endsWith" -> [field |-> <<"x">>, value |-> JsStr("c")]
      [] kind = "length" -> [field |-> <<"x">>, op |-> Undef, value |-> 3]

\* the predicate objects of two kinds, and those whose exists is the empty
\* path
TwoKindPredicates ==
    {[k \in {k1, k2} |-> ArgumentOf(k)] : k1 \in KnownKinds, k2 \in KnownKinds}
        \cup {[k \in {"exists", k2} |-> IF k = "exists" THEN <<>> ELSE ArgumentOf(k)] :
                 k2 \in KnownKinds \ {"exists"}}

PriorityRecords ==
    {EmptyObject} \cup {JsObj([k \in {"x"} |-> v]) : v \in NumericValues}

InitPriority ==
    /\ \E rec \in PriorityRecords, spec \in TwoKindPredicates :
         cur = [rec |-> rec, spec |-> spec, out |-> FALSE,
                alone |-> [k \in DOMAIN spec |-> FALSE]]
    /\ steps = <<[object |-> "Account", dependsOn |-> {}]>>
    /\ idMaps = [o \in Objs |-> EmptyMap]
    /\ envDryRun = FALSE
    /\ pipelineDryRun = FALSE
    /\ pc = "match"
    /\ stepsOrdered = <<1>>
    /\ stepIndex = 1
    /\ executed = <<1>>
    /\ fatal = "none"
    /\ org = {}

\* matchPredicate on the record and the predicate object, and on the record
\* and each of the object's kinds alone
MatchOnce ==
    /\ pc = "match"
    /\ pc' = "matched"
    /\ cur' = [cur EXCEPT
                 !.out = MatchPredicate(cur.rec, cur.spec),
                 !.alone = [k \in DOMAIN cur.spec |->
                               MatchPredicate(cur.rec, Wrap(k, cur.spec[k]))]]
    /\ UNCHANGED <<steps, envDryRun, pipelineDryRun, stepsOrdered, stepIndex,
                   executed, idMaps, fatal, org>>

NextPriority == MatchOnce

SpecPriority == InitPriority /\ [][NextPriority]_vars

(***************************************************************************)
(* lib/utils/permset.js, loadStepConfig: the step's config file merged     *)
(* with the step's inline overrides, memoised in CACHE.  A JSON value is a *)
(* primitive (a text or null), an array or an object.                      *)
(***************************************************************************)
Leaf(s) == [kind |-> "primitive", s |-> s]
Node(props) == [kind |-> "object", props |-> props]
List(items) == [kind |-> "array", items |-> items]

\* null in a JSON document
JsonNull == Leaf(Null)

\* undefined: a property the object lacks, a file that does not exist, a
\* step without configInline
Absent == [kind |-> "undefined"]

\* v === undefined || v === null
NoValue(v) == v = Absent \/ v = JsonNull

IsPlainObject(v) == v.kind = "object"

IsArray(v) == v.kind = "array"

EmptyConfig == Node(EmptyMap)

\* the config files of the steps, by path
StepFiles ==
    [path \in {"config/Account.json", "config/Contact.json"} |->
        Node([k \in {"matchKey", "strategy"} |->
            IF k = "matchKey"
            THEN Leaf(IF path = "config/Account.json" THEN "ExternalKey" ELSE "Email")
            ELSE Node([j \in {"operation", "api"} |->
                          Leaf(IF j = "operation" THEN "upsert" ELSE "rest")])])]

\* configInline of a step: none, a top-level key, a nested key, or both a
\* top-level key and a nested key of its name
InlineOverrides ==
    {Absent}
        \cup {Node([k \in {"matchKey"} |-> Leaf(v)]) : v \in {"Name", "Sku"}}
        \cup {Node([k \in {"strategy"} |-> Node([j \in {"operation"} |-> Leaf(v)])]) :
                 v \in {"insert", "upsert"}}
        \cup {Node([k \in {"operation", "strategy"} |->
                 IF k = "operation" THEN Leaf("insert")
                 ELSE Node([j \in {"operation"} |-> Leaf(v)])]) : v \in {"insert", "upsert"}}

ConfigSteps ==
    [object : Objs, configFile : DOMAIN StepFiles, configInline : InlineOverrides]

\* both arrays: the source's elements are appended to the target's
ReplaceArray_Concat(target, source) == List(target.items \o source.items)

\* both arrays: the result is a copy of the source, [...source]
ReplaceArray(target, source) == source

\* deepMerge(target, source): no source keeps the target, no target takes
\* the source, two arrays give the source's, two plain objects are merged
\* key by key, anything else is overwritten by the source
RECURSIVE DeepMerge(_, _)
DeepMerge(target, source) ==
    IF NoValue(source) THEN target
    ELSE IF NoValue(target) THEN source
    ELSE IF IsArray(target) /\ IsArray(source) THEN ReplaceArray(target, source)
    ELSE IF IsPlainObject(target) /\ IsPlainObject(source)
    THEN Node([k \in DOMAIN target.props \cup DOMAIN source.props |->
                 IF k \notin DOMAIN source.props THEN target.props[k]
                 ELSE DeepMerge(IF k \in DOMAIN target.props THEN target.props[k]
                                ELSE Absent,
                                source.props[k])])
    ELSE source

\* the layers of loadStepConfig merged from low to high: the base file and
\* the environment file when they exist, the step's file, and configInline
\* when it is a plain object
MergeLayers(base, env, stepFile, configInline) ==
    LET withBase == IF base # Absent THEN DeepMerge(EmptyConfig, base) ELSE EmptyConfig
        withEnv == IF env # Absent THEN DeepMerge(withBase, env) ELSE withBase
        withStep == DeepMerge(withEnv, stepFile)
    IN IF configInline # Absent /\ IsPlainObject(configInline)
       THEN DeepMerge(withStep, configInline)
       ELSE withStep

\* stableInlineHash(obj): JSON.stringify with the object's own keys as the
\* replacer list, which lets through, at every depth, only the properties
\* named like one of them
StableInlineHash(obj) ==
    Node([k \in DOMAIN obj.props |->
        IF ~IsPlainObject(obj.props[k]) THEN obj.props[k]
        ELSE Node([j \in DOMAIN obj.props[k].props \cap DOMAIN obj.props |->
                      obj.props[k].props[j]])])

\* the cache key; environment and directories are the same in a run
CacheKey(step) ==
    [objectName |-> step.object, absoluteStepPath |-> step.configFile,
     inlineHash |-> IF step.configInline = Absent THEN Absent
                    ELSE StableInlineHash(step.configInline)]

\* loadStepConfig(step, {cache}) with the cache as it is, in a project
\* without base and environment files: the config it returns and the cache
\* it leaves
LoadStepConfig(step, cache, memo) ==
    LET merged == MergeLayers(Absent, Absent, StepFiles[step.configFile],
                              step.configInline)
    IN IF cache /\ CacheKey(step) \in DOMAIN memo
       THEN [config |-> memo[CacheKey(step)], memo |-> memo]
       ELSE [config |-> merged,
             memo |-> IF cache
                      THEN [key \in DOMAIN memo \cup {CacheKey(step)} |->
                               IF key = CacheKey(step) THEN merged ELSE memo[key]]
                      ELSE memo]

InitConfig ==
    /\ cur = [memo |-> EmptyMap, loads |-> 0, step |-> Undef,
              loaded |-> EmptyMap, uncached |-> EmptyMap]
    /\ steps = <<[object |-> "Account", dependsOn |-> {}]>>
    /\ idMaps = [o \in Objs |-> EmptyMap]
    /\ envDryRun = FALSE
    /\ pipelineDryRun = FALSE
    /\ pc = "loop"
    /\ stepsOrdered = <<1>>
    /\ stepIndex = 0
    /\ executed = <<>>
    /\ fatal = "none"
    /\ org = {}

\* the step loop loads the config of its next step, with the cache; uncached
\* is what loadStepConfig returns for the step with cache: false
LoadStep ==
    /\ pc = "loop"
    /\ cur.loads < MaxLoads
    /\ \E step \in ConfigSteps :
         LET out == LoadStepConfig(step, TRUE, cur.memo)
         IN cur' = [memo |-> out.memo, loads |-> cur.loads + 1, step |-> step.object,
                    loaded |-> out.config,
                    uncached |-> LoadStepConfig(step, FALSE, cur.memo).config]
    /\ UNCHANGED <<steps, envDryRun, pipelineDryRun, pc, stepsOrdered, stepIndex,
                   executed, idMaps, fatal, org>>

NextConfig == LoadStep

SpecConfig == InitConfig /\ [][NextConfig]_vars

(***************************************************************************)
(* The layers of loadStepConfig on their own: documents with arrays, null  *)
(* and nested objects in the base file, the environment file, the step's   *)
(* file and configInline.                                                  *)
(***************************************************************************)
\* a JSON object of the keys in ks, with the value Val(k) at k
Obj(ks, Val(_)) == Node([k \in ks |-> Val(k)])

\* what a layer can hold: arrays of one and two elements, a null, a nested
\* object with a primitive, an array or a null, a primitive where other
\* layers have the object
LayerDocuments ==
    {EmptyConfig,
     Obj({"uniqueBy"}, LAMBDA k : List(<<"Name">>)),
     Obj({"uniqueBy"}, LAMBDA k : List(<<"Sku", "Name">>)),
     Obj({"uniqueBy"}, LAMBDA k : JsonNull),
     Obj({"strategy"}, LAMBDA k : Obj({"api"}, LAMBDA j : Leaf("rest"))),
     Obj({"strategy"}, LAMBDA k : Obj({"api", "keys"},
            LAMBDA j : IF j = "api" THEN Leaf("bulk") ELSE List(<<"Name">>))),
     Obj({"strategy"}, LAMBDA k : Obj({"keys"}, LAMBDA j : List(<<"Sku", "Name">>))),
     Obj({"strategy"}, LAMBDA k : Obj({"api"}, LAMBDA j : JsonNull)),
     Obj({"strategy"}, LAMBDA k : Leaf("none")),
     Obj({"uniqueBy", "strategy"},
            LAMBDA k : IF k = "uniqueBy" THEN List(<<"Name">>)
                       ELSE Obj({"api", "keys"},
                               LAMBDA j : IF j = "api" THEN Leaf("rest")
                                          ELSE List(<<"Sku">>)))}

\* a file that may not exist, a configInline that may not be given
Optional(docs) == docs \cup {Absent}

InitLayers ==
    /\ \E base \in Optional(LayerDocuments), env \in Optional(LayerDocuments),
          stepFile \in LayerDocuments, configInline \in Optional(LayerDocuments) :
         cur = [layers |-> <<base, env, stepFile, configInline>>, merged |-> Absent]
    /\ steps = <<[object |-> "Account", dependsOn |-> {}]>>
    /\ idMaps = [o \in Objs |-> EmptyMap]
    /\ envDryRun = FALSE
    /\ pipelineDryRun = FALSE
    /\ pc = "load"
    /\ stepsOrdered = <<1>>
    /\ stepIndex = 1
    /\ executed = <<1>>
    /\ fatal = "none"
    /\ org = {}

\* loadStepConfig(step, options) without the cache
LoadLayers ==
    /\ pc = "load"
    /\ pc' = "loaded"
    /\ cur' = [cur EXCEPT !.merged = MergeLayers(cur.layers[1], cur.layers[2],
                                                 cur.layers[3], cur.layers[4])]
    /\ UNCHANGED <<steps, envDryRun, pipelineDryRun, stepsOrdered, stepIndex,
                   executed, idMaps, fatal, org>>

NextLayers == LoadLayers

SpecLayers == InitLayers /\ [][NextLayers]_vars

(***************************************************************************)
(* The data a step hands to insertAndMap, in direct and in generate mode.  *)
(* The data file is a document whose rows are under the step's dataKey; a  *)
(* row's ParentKey is the seed key of its parent.                          *)
(***************************************************************************)
\* requiredId(idMapBucket, key, context) throws when the bucket has no
\* truthy id at the key
RequiredIdThrows(idMapBucket, key) ==
    key \notin DOMAIN idMapBucket \/ ~Truthy(idMapBucket[key])

\* generators.generateChildLocationsWithHierarchy(data, idMaps) for the
\* rows of obj: the rows that name a parent, with the parent's id in place
\* of its seed key
GenerateChildLocationsWithHierarchy(data, maps, obj) ==
    LET children == SelectSeq(data, LAMBDA loc : Truthy(loc["ParentKey"]))
    IN IF \E i \in DOMAIN children : RequiredIdThrows(maps[obj], children[i]["ParentKey"])
       THEN Thrown
       ELSE Returned([i \in DOMAIN children |->
                        [children[i] EXCEPT !["ParentKey"] = maps[obj][@]]])

Generators == {"generateChildLocationsWithHierarchy"}

\* the generator runs on the rows that passed the step's filter
GeneratorInput_Working(rawData, working) == working

\* what main() passes to runGenerator: the raw data document
GeneratorInput(rawData, working) == rawData

\* runGenerator(step, rawData, idMaps)
RunGenerator(step, rawData, maps) ==
    IF step.generator \notin Generators THEN Thrown
    ELSE GenerateChildLocationsWithHierarchy(rawData, maps, step.object)

GenerateSteps ==
    [object : {"Account"}, mode : {"direct", "generate"},
     generator : Generators \cup {"generateNothing"}, filter : FilterSpecs \cup {FalseFilter}]

\* the identifier maps at the step: with and without the Account k1
GenerateStores ==
    {[o \in Objs |-> IF o = "Account" THEN a ELSE EmptyMap] :
        a \in {EmptyMap, [k \in {"k1"} |-> NewId({}, "Account", "k1")]}}

InitGenerate ==
    /\ \E step \in GenerateSteps, rawData \in DataFiles :
         cur = [step |-> step, rawData |-> rawData, working |-> <<>>, finalData |-> <<>>]
    /\ idMaps \in GenerateStores
    /\ steps = <<[object |-> "Account", dependsOn |-> {}]>>
    /\ envDryRun = FALSE
    /\ pipelineDryRun = FALSE
    /\ pc = "data"
    /\ stepsOrdered = <<1>>
    /\ stepIndex = 1
    /\ executed = <<1>>
    /\ fatal = "none"
    /\ org = {}

\* an iteration of the step loop from the data file to the records it
\* hands on
SelectData ==
    /\ pc = "data"
    /\ LET working == FilterRows(cur.rawData, cur.step.filter)
           generated == RunGenerator(cur.step, GeneratorInput(cur.rawData, working), idMaps)
       IN IF cur.step.mode = "generate"
          THEN IF generated.thrown
               THEN /\ pc' = "thrown"
                    /\ fatal' = "GeneratorError"
                    /\ cur' = [cur EXCEPT !.working = working]
               ELSE /\ pc' = "selected"
                    /\ cur' = [cur EXCEPT !.working = working,
                                          !.finalData = generated.val]
                    /\ UNCHANGED fatal
          ELSE /\ pc' = "selected"
               /\ cur' = [cur EXCEPT !.working = working, !.finalData = working]
               /\ UNCHANGED fatal
    /\ UNCHANGED <<steps, envDryRun, pipelineDryRun, stepsOrdered, stepIndex,
                   executed, idMaps, org>>

NextGenerate == SelectData

SpecGenerate == InitGenerate /\ [][NextGenerate]_vars

(***************************************************************************)
(* Batching on its own: insertAndMap from chunk() to the end of its batch  *)
(* loop, for working sets longer than a batch.  A record is its key.       *)
(***************************************************************************)
\* strategy.batchSize of the mapping; 0 stands for none configured
BatchSizes == 0..3

InitBatch ==
    /\ \E work \in UNION {[1..n -> Keys] : n \in 0..MaxWork}, bs \in BatchSizes :
         cur = [work |-> work,
                cfg |-> MkCfg("ExternalKey", <<>>, <<>>, <<>>, "upsert", "rest", bs),
                batches |-> <<>>, calls |-> <<>>]
    /\ steps = <<[object |-> "Account", dependsOn |-> {}]>>
    /\ idMaps = [o \in Objs |-> EmptyMap]
    /\ envDryRun = FALSE
    /\ pipelineDryRun = FALSE
    /\ pc = "chunk"
    /\ stepsOrdered = <<1>>
    /\ stepIndex = 1
    /\ executed = <<1>>
    /\ fatal = "none"
    /\ org = {}

\* batches = chunk(pruned, batchSize)
ChunkWork ==
    /\ pc = "chunk"
    /\ pc' = "batches"
    /\ cur' = [cur EXCEPT !.batches = Chunk(cur.work, BatchSizeOf(cur.cfg))]
    /\ UNCHANGED <<steps, envDryRun, pipelineDryRun, stepsOrdered, stepIndex,
                   executed, idMaps, fatal, org>>

\* an iteration of "for (const batch of batches)": commit is called with
\* the next batch
CommitNextBatch ==
    /\ pc = "batches"
    /\ Len(cur.calls) < Len(cur.batches)
    /\ cur' = [cur EXCEPT !.calls = Append(@, cur.batches[Len(cur.calls) + 1])]
    /\ UNCHANGED <<steps, envDryRun, pipelineDryRun, pc, stepsOrdered, stepIndex,
                   executed, idMaps, fatal, org>>

\* the loop is over
BatchesDone ==
    /\ pc = "batches"
    /\ Len(cur.calls) = Len(cur.batches)
    /\ pc' = "returned"
    /\ UNCHANGED <<steps, envDryRun, pipelineDryRun, stepsOrdered, stepIndex,
                   executed, idMaps, fatal, cur, org>>

NextBatch == ChunkWork \/ CommitNextBatch \/ BatchesDone

SpecBatch == InitBatch /\ [][NextBatch]_vars

(***************************************************************************)
(* Reference resolution on its own: resolveReferences applied to a shaped  *)
(* record, and applied again to its result with the same identifier maps.  *)
(***************************************************************************)
\* the entries of a mapping's references: by field, policy, flag and form
ResolveEntries ==
    {RefEntryOn(t[1], "ParentKey", IF fk = "none" THEN t[2] ELSE Undef,
                om, rq, fk, IF fk = "none" THEN Undef ELSE "Account") :
        t \in {<<"AccountId", Undef>>, <<"ParentId", Undef>>,
               <<"ParentKey", "Account">>, <<"Primary__c", Undef>>},
        om \in {Undef, "error", "null", "skip"},
        rq \in BOOLEAN,
        fk \in {"none", "plain", "guarded"}}

\* the other declarative forms of the key, and an entry with an override
KeyedEntries ==
    {KeyedBy(RefEntryOn("AccountId", "ParentKey", ro, om, rq, "none", Undef),
             k[1], k[2]) :
        k \in {<<"path", Undef>>, <<"template", Undef>>,
               <<"refKeyTemplate", Undef>>, <<"paths", "ExternalKey">>},
        ro \in {Undef, "Contact"},
        om \in {Undef, "null"},
        rq \in BOOLEAN}

\* a second, optional entry of a references list
SecondEntries ==
    {RefEntry("ParentId", Undef, "skip", FALSE),
     RefEntryOn("ParentKey", "ParentKey", "Account", "null", FALSE, "none", Undef)}

ResolveLists ==
    {<<e>> : e \in ResolveEntries \cup KeyedEntries}
        \cup {<<e, f>> : e \in ResolveEntries, f \in SecondEntries}

ResolveRecords == {SeedRecord("k2", p) : p \in {Undef, "k1", "k2"}}

\* an identifier map of obj: empty, or with the id of its record k1
MapsOf(obj) == {EmptyMap, [k \in {"k1"} |-> NewId({}, obj, "k1")]}

ResolveStores == {[o \in Objs |-> IF o = "Account" THEN a ELSE c] :
                     a \in MapsOf("Account"), c \in MapsOf("Contact")}

NoOutcome == [thrown |-> FALSE, rec |-> SeedRecord(Undef, Undef)]

InitResolve ==
    /\ \E obj \in Objs :
         /\ steps = <<[object |-> obj, dependsOn |-> {}]>>
         /\ \E refs \in ResolveLists, rec \in ResolveRecords :
              cur = [obj |-> obj, references |-> refs, record |-> rec,
                     target |-> Undef, key |-> Returned(Undef),
                     first |-> NoOutcome, second |-> NoOutcome]
    /\ idMaps \in ResolveStores
    /\ envDryRun = FALSE
    /\ pipelineDryRun = FALSE
    /\ pc = "resolve"
    /\ stepsOrdered = <<1>>
    /\ stepIndex = 1
    /\ executed = <<1>>
    /\ fatal = "none"
    /\ org = {}

\* insertAndMap's call of resolveReferences on a record; target and key are
\* the bucket and the lookup key resolveRef computes for the first entry
ResolveOnce ==
    /\ pc = "resolve"
    /\ pc' = "resolved"
    /\ cur' = [cur EXCEPT
                  !.target = TargetObject(cur.references[1], cur.obj),
                  !.key = LookupKey(cur.references[1], cur.record),
                  !.first =
                  ResolveReferences(cur.record, cur.references, idMaps, cur.obj, 1)]
    /\ UNCHANGED <<steps, envDryRun, pipelineDryRun, stepsOrdered, stepIndex,
                   executed, idMaps, fatal, org>>

\* resolveReferences called again on the record it returned
ResolveAgain ==
    /\ pc = "resolved"
    /\ ~cur.first.thrown
    /\ pc' = "reresolved"
    /\ cur' = [cur EXCEPT !.second =
                  ResolveReferences(cur.first.rec, cur.references, idMaps, cur.obj, 1)]
    /\ UNCHANGED <<steps, envDryRun, pipelineDryRun, stepsOrdered, stepIndex,
                   executed, idMaps, fatal, org>>

NextResolve == ResolveOnce \/ ResolveAgain

SpecResolve == InitResolve /\ [][NextResolve]_vars

(***************************************************************************)
(* One batch through commit() and the reconciliation of its result, for    *)
(* every operation a strategy may name and every transport of lib/sf.js.   *)
(***************************************************************************)
CommitStrategies ==
    [operation : {"insert", "upsert", "update"},
     api : {"rest", "composite", "bulk"},
     externalIdField : {"ExternalKey"},
     batchSize : {0}]

\* the batches of a step, and a batch whose row has no external id
CommitBatches == (DataFiles \ {<<>>}) \cup {<<SeedRecord(Undef, Undef)>>}

\* the org before the call: empty, or holding the Account k1 already
CommitOrgs ==
    {{}, {[obj |-> "Account", key |-> "k1", id |-> NewId({}, "Account", "k1")]}}

Reverse(seq) == [i \in DOMAIN seq |-> seq[Len(seq) + 1 - i]]

NoCommitResult ==
    [isArray |-> FALSE, created |-> <<>>, updated |-> <<>>, failures |-> <<>>,
     hasProcessedRecords |-> FALSE, processedRecords |-> {}]

InitCommit ==
    /\ steps = <<[object |-> "Account", dependsOn |-> {}]>>
    /\ org \in CommitOrgs
    /\ \E batch \in CommitBatches, strategy \in CommitStrategies :
         cur = [obj |-> "Account", batch |-> batch, strategy |-> strategy,
                matchKey |-> "ExternalKey", before |-> org, called |-> "none",
                reordered |-> FALSE, rows |-> <<>>, res |-> NoCommitResult,
                idMap |-> EmptyMap]
    /\ envDryRun = FALSE
    /\ pipelineDryRun = FALSE
    /\ pc = "call"
    /\ stepsOrdered = <<1>>
    /\ stepIndex = 1
    /\ executed = <<1>>
    /\ idMaps = [o \in Objs |-> EmptyMap]
    /\ fatal = "none"

\* commit(conn, objectName, batch, strategy): the guards, the platform call
\* and the result handed back; a bulk job may return its rows in any order
CommitCall ==
    /\ pc = "call"
    /\ IF UpsertGuardFails(cur.batch, cur.strategy) \/ BulkOperationRefused(cur.strategy)
       THEN /\ pc' = "thrown"
            /\ fatal' = "CommitGuardError"
            /\ UNCHANGED <<cur, org>>
       ELSE \E oks \in [1..Len(cur.batch) -> BOOLEAN], reordered \in BOOLEAN :
              LET saved == SaveBatch(org, cur.obj, PlatformOperation(cur.strategy),
                                     cur.batch, oks, 1, <<>>)
                  returned == IF reordered THEN Reverse(saved.results)
                              ELSE saved.results
              IN /\ reordered => cur.strategy.api = "bulk"
                 /\ org' = saved.org
                 /\ cur' = [cur EXCEPT
                              !.called = PlatformOperation(cur.strategy),
                              !.reordered = reordered,
                              !.rows = saved.results,
                              !.res = Commit(saved.org, cur.obj, cur.batch,
                                             cur.strategy, returned)]
                 /\ pc' = "returned"
                 /\ UNCHANGED fatal
    /\ UNCHANGED <<steps, envDryRun, pipelineDryRun, stepsOrdered, stepIndex,
                   executed, idMaps>>

\* insertAndMap takes the result of commit() into the step's idMap
Reconcile ==
    /\ pc = "returned"
    /\ IF ReconcileThrows(cur.res)
       THEN /\ pc' = "thrown"
            /\ fatal' = "TypeError"
            /\ UNCHANGED cur
       ELSE /\ pc' = "reconciled"
            /\ cur' = [cur EXCEPT !.idMap =
                          ReconcileBatch(cur.res, cur.batch, cur.strategy, cur.matchKey)]
            /\ UNCHANGED fatal
    /\ UNCHANGED <<steps, envDryRun, pipelineDryRun, stepsOrdered, stepIndex,
                   executed, idMaps, org>>

NextCommit == CommitCall \/ Reconcile

SpecCommit == InitCommit /\ [][NextCommit]_vars

(***************************************************************************)
(* Properties.                                                             *)
(***************************************************************************)
\* step j produces an entity type step i depends on
Edge(s, j, i) == i # j /\ s[j].object \in s[i].dependsOn

RECURSIVE ReachableFrom(_, _)
ReachableFrom(s, seen) ==
    LET more == seen \cup {i \in DOMAIN s : \E j \in seen : Edge(s, j, i)}
    IN IF more = seen THEN seen ELSE ReachableFrom(s, more)

\* no step is a producer of itself through a chain of edges
Acyclic(s) ==
    \A j \in DOMAIN s :
        j \notin ReachableFrom(s, {i \in DOMAIN s : Edge(s, j, i)})

PositionIn(order, i) == CHOOSE p \in DOMAIN order : order[p] = i

IsPrefix(a, b) == Len(a) <= Len(b) /\ a = SubSeq(b, 1, Len(a))

Ordered == pc \in {"loop", "meta", "commit", "returned", "done"}

\* C1: for an acyclic dependency graph the scheduler's order holds every step
\* once, with every producer before each of its consumers, and the steps are
\* started in exactly that order
C1_ProducersBeforeConsumers ==
    (Ordered /\ Acyclic(steps)) =>
        /\ Len(stepsOrdered) = Len(steps)
        /\ Range(stepsOrdered) = DOMAIN steps
        /\ \A j, i \in DOMAIN steps :
              Edge(steps, j, i) =>
                  PositionIn(stepsOrdered, j) < PositionIn(stepsOrdered, i)
        /\ IsPrefix(executed, stepsOrdered)

\* an acyclic pipeline of three steps or more, with a consumer declared before
\* its producer, has run to the end
C1_Witness ==
    /\ pc = "done"
    /\ Acyclic(steps)
    /\ Len(steps) >= 3
    /\ \E j, i \in DOMAIN steps : Edge(steps, j, i) /\ i < j
    /\ executed = stepsOrdered

Succeeded(r) == r # "pending" /\ r # "failed"

BusinessKey(c, i) == c.pruned[i][c.cfg.matchKey]

DistinctKeys(c) ==
    \A i, j \in DOMAIN c.pruned :
        i # j => BusinessKey(c, i) # BusinessKey(c, j)

\* C2: when a step finishes in which every record was committed, the store
\* maps each record's business key to the platform id its commit returned,
\* for an insert step as for an upsert step
C2_AllCommittedAreMapped ==
    [][(/\ pc = "returned" /\ pc' = "loop"
        /\ Len(cur.pruned) > 0
        /\ DistinctKeys(cur)
        /\ \A i \in DOMAIN cur.pruned :
              Succeeded(cur.rowResult[i]) /\ Truthy(BusinessKey(cur, i)))
       => \A i \in DOMAIN cur.pruned :
              /\ BusinessKey(cur, i) \in DOMAIN idMaps'[cur.obj]
              /\ idMaps'[cur.obj][BusinessKey(cur, i)] = cur.rowResult[i]]_vars

\* C3: every entry of the step's identifier map is the business key of a record
\* of the step whose commit succeeded, with the platform id that commit gave
C3_EntriesAreCommitted ==
    \A k \in DOMAIN cur.idMap :
        \E i \in DOMAIN cur.pruned :
            /\ BusinessKey(cur, i) = k
            /\ Succeeded(cur.rowResult[i])
            /\ cur.idMap[k] = cur.rowResult[i]

\* a step returns a map with an entry although a record of it failed
C3_Witness ==
    /\ pc = "returned"
    /\ cur.idMap # EmptyMap
    /\ \E i \in DOMAIN cur.pruned : cur.rowResult[i] = "failed"

\* C4: every row of a step that succeeded has its entry in the map the step
\* returns, also when other rows of its batch failed (stated for upsert steps)
C4_SuccessfulRowsAreMapped ==
    (pc = "returned" /\ cur.cfg.strategy.operation = "upsert") =>
        \A i \in DOMAIN cur.pruned :
            (Succeeded(cur.rowResult[i]) /\ Truthy(BusinessKey(cur, i))) =>
                /\ BusinessKey(cur, i) \in DOMAIN cur.idMap
                /\ cur.idMap[BusinessKey(cur, i)] = cur.rowResult[i]

\* the entity type a reference entry of the current step points to
TargetOf(c, entry) ==
    IF Truthy(entry.refObject) THEN entry.refObject
    ELSE IF entry.field = "ParentId" THEN c.obj
    ELSE IF \E t \in Objs : t \o "Id" = entry.field
         THEN CHOOSE t \in Objs : t \o "Id" = entry.field
         ELSE c.obj

\* a record of the step has a required reference the store has no entry for
UnresolvedRequired(c) ==
    \E i \in DOMAIN c.records, n \in DOMAIN c.cfg.references :
        LET entry == c.cfg.references[n]
            key == c.records[i][entry.refKey]
        IN /\ entry.required
           /\ key \notin DOMAIN idMaps[TargetOf(c, entry)]

ResolutionReached(c) == c.stage \notin {"none", "entered", "meta", "nometa"}

\* C5: a step that resolves a required reference the store has no entry for
\* raises a resolution error, enters no commit call, and the run halts
C5_UnresolvedRequiredHalts ==
    (ResolutionReached(cur) /\ UnresolvedRequired(cur)) =>
        /\ pc = "halted"
        /\ fatal = "ResolutionError"
        /\ cur.issued = {}

\* a Contact step halted on its reference while no Account step had run
C5_Witness ==
    /\ pc = "halted"
    /\ fatal = "ResolutionError"
    /\ cur.obj = "Contact"
    /\ UnresolvedRequired(cur)
    /\ \A n \in DOMAIN executed : steps[executed[n]].object # "Account"
    /\ cur.issued = {}

\* C6: a fatal error halts the run at once; from then on no step starts, no
\* commit call is entered and the org is not written; no platform record is
\* ever removed
C6_FatalHaltsRun ==
    [][/\ fatal' # "none" => pc' = "halted"
       /\ fatal # "none" => (/\ org' = org
                             /\ cur'.issued = cur.issued
                             /\ stepIndex' = stepIndex
                             /\ idMaps' = idMaps)
       /\ org \subseteq org']_vars

\* a transport error in the second batch of a step, with a step left to run
C6_Witness ==
    /\ pc = "halted"
    /\ fatal = "TransportError"
    /\ cur.reconciled # {}
    /\ org # {}
    /\ stepIndex < Len(stepsOrdered)

\* C7: at most one batch is in flight, and a batch is submitted only after
\* every batch before it has been reconciled
C7_OneBatchInFlight ==
    /\ Cardinality(cur.inflight) <= 1
    /\ \A b \in cur.issued : \A a \in 1..(b - 1) : a \in cur.reconciled

\* the second batch is in flight, the first reconciled into the step's map
C7_Witness ==
    /\ pc = "commit"
    /\ cur.inflight = {2}
    /\ cur.reconciled = {1}
    /\ cur.idMap # EmptyMap

\* C8: the shared store changes only when main() merges the map a completed
\* step returned; it is not modified while a step transforms and commits
C8_StoreFrozenDuringStep ==
    [][idMaps' # idMaps =>
          /\ pc = "returned" /\ pc' = "loop"
          /\ cur.inflight = {}
          /\ cur.reconciled = DOMAIN cur.batches]_vars

\* a step has reconciled entries and a batch left while the store has none
C8_Witness ==
    /\ pc = "commit"
    /\ cur.idMap # EmptyMap
    /\ idMaps[cur.obj] = EmptyMap

\* C9: an entry of the store is never removed and its platform id never
\* changes, also when several steps load the same entity type
C9_StoreOnlyGrows ==
    [][\A o \in Objs : \A k \in DOMAIN idMaps[o] :
          /\ k \in DOMAIN idMaps'[o]
          /\ idMaps'[o][k] = idMaps[o][k]]_vars

\* two steps of the same entity type have run and the store holds both keys
C9_Witness ==
    /\ pc = "loop"
    /\ stepIndex = 2
    /\ \A n \in DOMAIN executed : steps[executed[n]].object = "Account"
    /\ DOMAIN idMaps["Account"] = Keys

\* two records of the working set agree on every uniqueBy field
SharedCompositeKey(c) ==
    /\ Len(c.cfg.uniqueBy) > 0
    /\ \E i, j \in DOMAIN c.pruned :
          /\ i < j
          /\ \A n \in DOMAIN c.cfg.uniqueBy :
                c.pruned[i][c.cfg.uniqueBy[n]] = c.pruned[j][c.cfg.uniqueBy[n]]

\* C10: a working set with two records of the same composite key makes the
\* step raise a validation error before any commit call (a schema error when
\* the schema validation that runs first has already failed)
C10_DuplicateKeyHalts ==
    SharedCompositeKey(cur) =>
        /\ pc = "halted"
        /\ cur.issued = {}
        /\ cur.stage # "schema" => (fatal = "ValidationError" /\ cur.stage = "validation")

\* a step halted on its duplicate although the duplicates sit in two batches
C10_Witness ==
    /\ pc = "halted"
    /\ fatal = "ValidationError"
    /\ SharedCompositeKey(cur)
    /\ BatchSizeOf(cur.cfg) = 1
    /\ Len(cur.pruned) >= 2
    /\ \A i \in DOMAIN cur.pruned : ~RequiredFieldMissing(cur.pruned[i], cur.cfg.requiredFields)

\* C14: the keys of the map a step returns are values its committed records
\* have at identify.matchKey, also when strategy.externalIdField is another
\* field
C14_KeyedByMatchKey ==
    pc = "returned" =>
        DOMAIN cur.idMap \subseteq
            {BusinessKey(cur, i) :
                i \in {j \in DOMAIN cur.pruned : Succeeded(cur.rowResult[j])}}

\* C15: a pipeline whose dependency graph has a cycle is rejected by the
\* scheduler: the run does not get past ordering and no step is executed
C15_CycleIsRejected ==
    ~Acyclic(steps) =>
        /\ pc \in {"start", "halted"}
        /\ executed = <<>>

\* the bucket of the store a reference entry looks its key up in
BucketOf(c, entry) ==
    IF entry.fromKind # "none" THEN entry.fromObject ELSE TargetOf(c, entry)

\* the first entry of the list finds no key in the record, or no entry for
\* the key in its bucket
FirstUnresolvable(c) ==
    LET e == c.references[1]
        key == c.record[e.refKey]
    IN ~Truthy(key) \/ key \notin DOMAIN idMaps[BucketOf(c, e)]

Resolved == pc \in {"resolved", "reresolved"}

\* C16: a reference whose key is empty or absent from its identifier map
\* raises when the entry is required or its policy is "error", whatever the
\* other of the two says, and the target field is not written
C16_RequiredOrErrorRaises ==
    (/\ Resolved
     /\ FirstUnresolvable(cur)
     /\ (cur.references[1].required \/ cur.references[1].onMissing = "error"))
    => /\ cur.first.thrown
       /\ cur.first.rec[cur.references[1].field] = cur.record[cur.references[1].field]

\* policy "error" without the required flag has raised on a key that the
\* record has and the map has not
C16_Witness ==
    /\ pc = "resolved"
    /\ cur.references[1].onMissing = "error"
    /\ ~cur.references[1].required
    /\ cur.references[1].fromKind = "none"
    /\ Truthy(cur.record[cur.references[1].refKey])
    /\ FirstUnresolvable(cur)
    /\ idMaps[BucketOf(cur, cur.references[1])] # EmptyMap
    /\ cur.first.thrown

\* no entry writes a field that it, or an entry before it, reads its key from
KeysUntouched(references) ==
    \A i, j \in DOMAIN references :
        j <= i => references[i].field \notin {references[j].refKey, references[j].altKey}

\* C17 as stated: resolving the result again gives the same record and no
\* new error, for every record, list of entries and identifier maps
C17_ResolveTwiceIsOnce ==
    pc = "reresolved" =>
        /\ ~cur.second.thrown
        /\ cur.second.rec = cur.first.rec

\* C17 as amended: the same, for the lists in which no entry writes a field
\* that it or an earlier entry reads its key from
C17_ResolveTwiceIsOnceKeysUntouched ==
    (pc = "reresolved" /\ KeysUntouched(cur.references)) =>
        /\ ~cur.second.thrown
        /\ cur.second.rec = cur.first.rec

\* a list of two entries wrote a reference and the second pass changed nothing
C17_Witness ==
    /\ pc = "reresolved"
    /\ KeysUntouched(cur.references)
    /\ Len(cur.references) = 2
    /\ cur.first.rec # cur.record
    /\ cur.second.rec = cur.first.rec
    /\ ~cur.second.thrown

\* C18: an entry that says required: false and names no policy is optional:
\* when its key is empty or has no map entry the record is still processed
\* and the target field is left unset
C18_NotRequiredIsOptional ==
    (/\ Resolved
     /\ ~cur.references[1].required
     /\ cur.references[1].onMissing = Undef
     /\ FirstUnresolvable(cur))
    => /\ ~cur.first.thrown
       /\ cur.first.rec[cur.references[1].field]
              \in {cur.record[cur.references[1].field], Null}

CommitReturned == pc \in {"returned", "reconciled"} \/ (pc = "thrown" /\ cur.called # "none")

\* C11: every record of a batch handed to commit() has a non-empty value at
\* the mapping's match key
C11_CommittedRecordsCarryMatchKey ==
    \A b \in cur.issued :
        \A i \in DOMAIN cur.batches[b] :
            Truthy(cur.batches[b][i][cur.cfg.matchKey])

\* C12: the result of commit() has the lists created, updated and failures,
\* and together they hold as many entries as the batch has records, for every
\* operation and transport
C12_EveryRecordReportedOnce ==
    CommitReturned =>
        /\ ~cur.res.isArray
        /\ Len(cur.res.created) + Len(cur.res.updated) + Len(cur.res.failures)
              = Len(cur.batch)

\* C13: every entry of the map of an upsert batch pairs the external id of a
\* row that was saved with the id of the platform record that bears this
\* external id, in whichever order the results came back
C13_UpsertPairsByExternalId ==
    (pc = "reconciled" /\ cur.strategy.operation = "upsert") =>
        \A k \in DOMAIN cur.idMap :
            /\ \E r \in org : r.obj = cur.obj /\ r.key = k /\ r.id = cur.idMap[k]
            /\ \E i \in DOMAIN cur.batch :
                  /\ cur.batch[i][cur.strategy.externalIdField] = k
                  /\ cur.rows[i].success
                  /\ cur.rows[i].id = cur.idMap[k]

\* a bulk upsert returned its two rows in reverse order and both are mapped
C13_Witness ==
    /\ pc = "reconciled"
    /\ cur.strategy.operation = "upsert"
    /\ cur.strategy.api = "bulk"
    /\ cur.reordered
    /\ Len(cur.batch) >= 2
    /\ cur.batch[1].ExternalKey # cur.batch[2].ExternalKey
    /\ \A i \in DOMAIN cur.batch : cur.batch[i].ExternalKey \in DOMAIN cur.idMap

\* C19: when the commit of a batch returns with a failed record nothing is
\* raised: the step goes on with its next batch or returns, and the run goes on
C19_RecordFailureDoesNotRaise ==
    [][(/\ pc = "commit"
        /\ \E i \in DOMAIN cur.rowResult :
              cur.rowResult[i] = "pending" /\ cur'.rowResult[i] = "failed")
       => /\ fatal' = "none"
          /\ pc' \in {"commit", "returned"}]_vars

\* C20: the platform call of a batch is the operation the strategy names,
\* and a batch committed with an update strategy creates no record
C20_OperationAsConfigured ==
    CommitReturned =>
        /\ cur.called = cur.strategy.operation
        /\ cur.strategy.operation = "update" => org = cur.before

\* the entity type the rules of C27 give an entry: the override, the current
\* type for ParentId, the field name without Id; Undef when none applies
NamedTarget(c, entry) ==
    IF Truthy(entry.refObject) THEN entry.refObject
    ELSE IF entry.field = "ParentId" THEN c.obj
    ELSE IF \E t \in Objs : t \o "Id" = entry.field
         THEN CHOOSE t \in Objs : t \o "Id" = entry.field
         ELSE Undef

\* C27: a declarative entry is looked up under its override, else under the
\* current type for ParentId, else under the field name without Id; when
\* none of these names a type, resolution raises
C27_TargetNamedOrRaises ==
    (Resolved /\ cur.references[1].fromKind = "none") =>
        IF Truthy(NamedTarget(cur, cur.references[1]))
        THEN cur.target = NamedTarget(cur, cur.references[1])
        ELSE cur.first.thrown

\* the value of the first listed path that is neither absent nor empty
FirstListed(record, paths) ==
    LET filled == {i \in DOMAIN paths : Truthy(record[paths[i]])}
    IN IF filled = {} THEN Undef ELSE record[paths[Min(filled)]]

\* the lookup key C28 gives an entry on a record
ExpectedKey(entry, record) ==
    CASE entry.keyKind = "path" -> record[entry.refKey]
      [] entry.keyKind = "paths" ->
           FirstListed(record, IF entry.altKey = Undef THEN <<entry.refKey>>
                               ELSE <<entry.refKey, entry.altKey>>)
      [] OTHER -> IF Truthy(record[entry.refKey]) THEN record[entry.refKey] ELSE ""

\* C28: the lookup key of a declarative entry is the value of its single
\* path, the first non-empty value of its listed paths, or its template
\* with the placeholders replaced by the record's values
C28_LookupKeyByForm ==
    (Resolved /\ cur.references[1].fromKind = "none") =>
        cur.key = Returned(ExpectedKey(cur.references[1], cur.record))

\* C21: in a dry run, by the environment flag or by the pipeline's setting,
\* no commit call is made, the org receives nothing and the identifier-map
\* store stays empty until the run ends
C21_DryRunCommitsNothing ==
    (envDryRun \/ pipelineDryRun) =>
        /\ cur.issued = {}
        /\ org = {}
        /\ \A o \in Objs : idMaps[o] = EmptyMap

\* a run of two steps ended as a dry run by the pipeline's setting alone
C21_Witness ==
    /\ pc = "done"
    /\ pipelineDryRun
    /\ ~envDryRun
    /\ Len(steps) = 2
    /\ Len(executed) = 2
    /\ org = {}
    /\ \A o \in Objs : idMaps[o] = EmptyMap

\* the payloads insertAndMap builds from the records of a step
Payloads(c) ==
    [i \in DOMAIN c.records |->
        ResolveReferences(c.records[i], c.cfg.references, idMaps, c.obj, 1)]

\* C22: a dry-run step previews the payloads the per-record transformation
\* gives for its records
C22_DryRunPreviewsPayloads ==
    cur.stage = "previewed" =>
        \A i \in DOMAIN cur.sample :
            ~Payloads(cur)[i].thrown => cur.sample[i] = Payloads(cur)[i].rec

Filtered == pc \in {"filtered", "wrapped"}

\* the value at a dotted path: undefined as soon as a segment is absent
RECURSIVE PathValue(_, _)
PathValue(v, path) ==
    IF path = <<>> THEN v
    ELSE IF v.t = "object" /\ Head(path) \in DOMAIN v.props
         THEN PathValue(v.props[Head(path)], Tail(path))
         ELSE JsUndefined

\* missing, null, the empty text, a boolean or a text that is no number
NotNumeric(v) ==
    \/ v.t \in {"undefined", "null", "boolean"}
    \/ v.t = "string" /\ v.s \notin DOMAIN TextNumbers

\* the filter is the one comparison predicate p
IsComparison(p) == \E n \in DOMAIN CompareKinds : DOMAIN p = {CompareKinds[n]}

\* C23: a gt/gte/lt/lte predicate keeps no record whose field value is not a
\* number, and no record at all when its comparison value is not a number
C23_NonNumericComparesFalse ==
    (Filtered /\ cur.filter.form = "one" /\ IsComparison(cur.filter.pred)) =>
        LET arg == cur.filter.pred[CHOOSE k \in DOMAIN cur.filter.pred : TRUE]
        IN \A i \in DOMAIN cur.records :
              (NotNumeric(PathValue(cur.records[i], arg.field)) \/ NotNumeric(arg.value))
                  => cur.records[i] \notin Range(cur.out)

\* C24: filtering with the one-element list [P] keeps exactly the records
\* that filtering with the predicate P alone keeps
C24_ListOfOneIsThePredicate ==
    pc = "wrapped" => cur.wrapped = cur.out

\* a predicate alone kept one of two records, and so did its list
C24_Witness ==
    /\ pc = "wrapped"
    /\ Len(cur.records) = 2
    /\ Len(cur.out) = 1
    /\ cur.wrapped = cur.out

\* the predicate object has no known kind
Unknown(p) == DOMAIN p \cap KnownKinds = {}

\* p is the wrapper kind around one unknown predicate
WrapsUnknown(p, kind) ==
    /\ DOMAIN p = {kind}
    /\ IF kind = "not" THEN Unknown(p[kind])
       ELSE Len(p[kind]) = 1 /\ Unknown(p[kind][1])

\* C25: a predicate object without a known kind is true of every record:
\* alone, and as the operand of all or any, the filter keeps every record;
\* as the operand of not it makes the negation false, and the negation of
\* that true again
C25_UnknownKindIsTrue ==
    (Filtered /\ cur.filter.form = "one") =>
        LET p == cur.filter.pred
        IN /\ (Unknown(p) \/ WrapsUnknown(p, "all") \/ WrapsUnknown(p, "any"))
                 => cur.out = cur.records
           /\ WrapsUnknown(p, "not") => cur.out = <<>>
           /\ (DOMAIN p = {"not"} /\ WrapsUnknown(p["not"], "not"))
                 => cur.out = cur.records

\* records were kept by {between: 1} nested in all
C25_Witness ==
    /\ pc = "filtered"
    /\ cur.filter.form = "one"
    /\ WrapsUnknown(cur.filter.pred, "all")
    /\ DOMAIN cur.filter.pred["all"][1] # {}
    /\ Len(cur.records) = 2
    /\ cur.out = cur.records

\* the filter is the one predicate {kind: path} with a path that is not ""
IsPathPredicate(p, kind) == DOMAIN p = {kind} /\ p[kind] # <<>>

Nullish(v) == v = JsUndefined \/ v = JsNull

\* C26: {missing: path} keeps, in their order and as they are, exactly the
\* records whose value at the path is undefined or null, an absent segment
\* on the way included; {exists: path} keeps exactly the others
C26_MissingAndExistsPartition ==
    (Filtered /\ cur.filter.form = "one") =>
        LET p == cur.filter.pred
        IN /\ IsPathPredicate(p, "missing") =>
                cur.out = SelectSeq(cur.records,
                              LAMBDA r : Nullish(PathValue(r, p["missing"])))
           /\ IsPathPredicate(p, "exists") =>
                cur.out = SelectSeq(cur.records,
                              LAMBDA r : ~Nullish(PathValue(r, p["exists"])))

\* {missing: "a.b"} kept a record that has a but not a.b and dropped one
\* that has a.b
C26_Witness ==
    /\ pc = "filtered"
    /\ cur.filter = OneFilter(Wrap("missing", <<"a", "b">>))
    /\ Len(cur.records) = 2
    /\ cur.records[1] = JsObj([k \in {"a"} |-> JsObj([k2 \in {"b"} |-> JsNum(1)])])
    /\ cur.records[2] = JsObj([k \in {"a"} |-> EmptyObject])
    /\ cur.out = <<cur.records[2]>>

\* C29: with the cache, loadStepConfig returns for every step the config it
\* returns without the cache
C29_CacheIsTransparent ==
    cur.loads > 0 => cur.loaded = cur.uncached

\* the step has passed the metadata validation of its pruned records
ValidationReached(c) ==
    c.stage \notin {"none", "entered", "meta", "nometa", "resolving", "schema"}

\* a pruned record lacks a required field, or has null for it
RequiredAbsentAfterPruning(c) ==
    \E i \in DOMAIN c.pruned, n \in DOMAIN c.cfg.requiredFields :
        c.pruned[i][c.cfg.requiredFields[n]] \in {Undef, Null}

\* C30: the required fields are asserted on the pruned records: when a
\* record lacks one after pruning, or has null for it, the step fails with
\* a validation error and enters no commit call
C30_RequiredCheckedAfterPruning ==
    (ValidationReached(cur) /\ RequiredAbsentAfterPruning(cur)) =>
        /\ pc = "halted"
        /\ fatal = "ValidationError"
        /\ cur.issued = {}

\* a step failed validation on a required field its records had and pruning
\* removed
C30_Witness ==
    /\ pc = "halted"
    /\ fatal = "ValidationError"
    /\ cur.cfg.requiredFields = <<"ExternalKey">>
    /\ cur.records # <<>>
    /\ \A i \in DOMAIN cur.records :
          Truthy(cur.records[i].ExternalKey) /\ cur.pruned[i].ExternalKey = Undef
    /\ cur.issued = {}

\* the steps not yet placed whose producers are all placed
ReadyAfter(s, placed) ==
    {i \in DOMAIN s \ placed : \A j \in DOMAIN s : Edge(s, j, i) => j \in placed}

PlacedBefore(order, k) == {order[m] : m \in 1..(k - 1)}

HierarchyPipeline(s) ==
    LET same == {i \in DOMAIN s : s[i].object = "Account"}
    IN /\ Cardinality(same) >= 2
       /\ \A i \in same : s[i].dependsOn = IF i = Min(same) THEN {} ELSE {"Account"}
       /\ \A i \in DOMAIN s \ same :
             /\ "Account" \in s[i].dependsOn
             /\ \A j \in same : j < i

\* step i is executed, and before step j
ExecutedBefore(i, j) ==
    \E m, n \in DOMAIN executed : m < n /\ executed[m] = i /\ executed[n] = j

\* C32: in the hierarchy pipeline the steps of the repeated type are executed
\* in their declaration order and the steps that depend on it after all of
\* them
C32_HierarchyInDeclarationOrder ==
    (pc = "done" /\ HierarchyPipeline(steps)) =>
        \A i, j \in DOMAIN steps :
            (/\ steps[i].object = "Account"
             /\ i # j
             /\ (steps[j].object = "Account" => i < j))
            => ExecutedBefore(i, j)

\* roots, level 2, level 3 and the dependent step ran in that order
C32_Witness ==
    /\ pc = "done"
    /\ Len(steps) = 4
    /\ HierarchyPipeline(steps)
    /\ steps[4].object = "Contact"
    /\ executed = <<1, 2, 3, 4>>

\* C33: for every step list, with a cycle or without, the scheduler returns
\* every step exactly once
C33_OrderIsPermutation ==
    Ordered =>
        /\ Len(stepsOrdered) = Len(steps)
        /\ Range(stepsOrdered) = DOMAIN steps

\* a step list with a cycle was ordered and run to the end
C33_Witness ==
    /\ pc = "done"
    /\ ~Acyclic(steps)
    /\ Len(steps) >= 3
    /\ Len(executed) = Len(steps)
    /\ Range(executed) = DOMAIN steps

\* the platform ids the identifier maps hold
StoredIds == UNION {Range(idMaps[o]) : o \in Objs}

\* a field of the record differs from what it was only if an entry targets
\* it and the new value is a stored id, or null under the "null" policy
OnlyTargetsWritten(c) ==
    \A f \in Fields :
        c.first.rec[f] # c.record[f] =>
            \E n \in DOMAIN c.references :
                /\ c.references[n].field = f
                /\ \/ c.first.rec[f] \in StoredIds
                   \/ c.first.rec[f] = Null /\ c.references[n].onMissing = "null"

\* a field targeted only by "skip" entries whose keys resolve to nothing
\* keeps its value
SkippedKept(c) ==
    \A f \in Fields :
        (/\ \E n \in DOMAIN c.references : c.references[n].field = f
         /\ \A n \in DOMAIN c.references :
               c.references[n].field = f =>
                   /\ c.references[n].onMissing = "skip"
                   /\ c.references[n].fromKind = "none"
                   /\ ~Truthy(Lookup(idMaps, BucketOf(c, c.references[n]),
                                     c.record[c.references[n].refKey])))
        => c.first.rec[f] = c.record[f]

\* C34: resolveReferences changes only the target fields of the entries that
\* gave a value, leaves a skipped field as it was, and leaves the identifier
\* maps as they were
C34_OnlyTargetFieldsChange ==
    /\ [](Resolved => (OnlyTargetsWritten(cur) /\ SkippedKept(cur)))
    /\ [][idMaps' = idMaps]_vars

\* one entry of a list wrote an id, a "skip" entry of it left its field
C34_Witness ==
    /\ pc = "resolved"
    /\ ~cur.first.thrown
    /\ Len(cur.references) = 2
    /\ cur.references[2].onMissing = "skip"
    /\ cur.references[1].field # cur.references[2].field
    /\ cur.first.rec[cur.references[1].field] \in StoredIds
    /\ cur.first.rec[cur.references[2].field] = cur.record[cur.references[2].field]
    /\ \A f \in Fields \ {cur.references[1].field} : cur.first.rec[f] = cur.record[f]

\* the records of a sequence of batches, in order
RECURSIVE Flatten(_)
Flatten(bs) == IF bs = <<>> THEN <<>> ELSE Head(bs) \o Flatten(Tail(bs))

\* the batch size in force: the configured one, 200 when none is configured
SizeInForce(c) ==
    IF c.cfg.strategy.batchSize = 0 THEN 200 ELSE c.cfg.strategy.batchSize

\* C35: the batches submitted are consecutive slices of the working set:
\* together they are the working set in order, all but the last have
\* exactly batchSize records, none is empty or longer, and an empty working
\* set makes no commit call
C35_BatchesAreConsecutiveSlices ==
    /\ pc = "batches" => IsPrefix(Flatten(cur.calls), cur.work)
    /\ pc = "returned" =>
          /\ Flatten(cur.calls) = cur.work
          /\ \A n \in DOMAIN cur.calls :
                /\ Len(cur.calls[n]) >= 1
                /\ Len(cur.calls[n]) <= SizeInForce(cur)
                /\ n < Len(cur.calls) => Len(cur.calls[n]) = SizeInForce(cur)
          /\ cur.work = <<>> => cur.calls = <<>>

\* a working set of three records or more went out in full batches of two
\* and a shorter last one
C35_Witness ==
    /\ pc = "returned"
    /\ cur.cfg.strategy.batchSize = 2
    /\ Len(cur.calls) >= 2
    /\ Len(cur.calls[Len(cur.calls)]) = 1
    /\ Flatten(cur.calls) = cur.work


\* commitREST returned the result of a platform call for the batch
RestReturned ==
    /\ pc \in {"returned", "reconciled"}
    /\ cur.strategy.api = "rest"
    /\ cur.called # "none"

\* the failure entry names a row of the batch that failed, by the row's
\* index in the batch and its business key
NamesFailedRow(f) ==
    /\ f.index + 1 \in DOMAIN cur.batch
    /\ ~cur.rows[f.index + 1].success
    /\ f.key = cur.batch[f.index + 1]["ExternalKey"]

\* C36: every failure entry commitREST returns carries the index the failed
\* record had in the submitted batch and its business key, for insert as
\* well as for upsert
C36_FailuresNameTheirRow ==
    RestReturned =>
        \A n \in DOMAIN cur.res.failures : NamesFailedRow(cur.res.failures[n])

\* the rows of the step whose commit succeeded, and those whose commit failed
SucceededRows(c) == {i \in DOMAIN c.rowResult : Succeeded(c.rowResult[i])}

FailedRows(c) == {i \in DOMAIN c.rowResult : c.rowResult[i] = "failed"}

\* C37: when insertAndMap has returned, the step's ok is the number of
\* submitted records whose commit succeeded, its errors the number whose
\* commit failed, and ok + errors = attempted
C37_CountsMatchCommitOutcomes ==
    (pc = "returned" /\ cur.stage = "returned") =>
        /\ OkCount(cur) = Cardinality(SucceededRows(cur))
        /\ ErrCount(cur) = Cardinality(FailedRows(cur))
        /\ OkCount(cur) + ErrCount(cur) = Attempted(cur)


\* the value a layer gives a top-level key, and a nested key of an object
PropOf(v, k) ==
    IF v # Absent /\ IsPlainObject(v) /\ k \in DOMAIN v.props THEN v.props[k] ELSE Absent

LayerValue(c, i, k) == PropOf(c.layers[i], k)

KeysOf(v) == IF v # Absent /\ IsPlainObject(v) THEN DOMAIN v.props ELSE {}

Highest(S) == CHOOSE i \in S : \A j \in S : j <= i

\* the layers that define the top-level key k: those that give it a value
\* other than null
DefinedIn(c, k) == {i \in DOMAIN c.layers : ~NoValue(LayerValue(c, i, k))}

\* the layers whose object at k takes part in the merged object: the
\* highest one that defines k and those below it up to which every
\* defining layer has an object at k
MergedObjects(c, k) ==
    {i \in DefinedIn(c, k) :
        \A j \in DefinedIn(c, k) : j >= i => IsPlainObject(LayerValue(c, j, k))}

NestedDefinedIn(c, k, n) ==
    {i \in MergedObjects(c, k) : ~NoValue(PropOf(LayerValue(c, i, k), n))}

\* the merged value at the nested key n of k comes from the highest layer
\* that defines it
NestedFromHighest(c, k, n) ==
    IF NestedDefinedIn(c, k, n) = {}
    THEN NoValue(PropOf(PropOf(c.merged, k), n))
    ELSE PropOf(PropOf(c.merged, k), n)
            = PropOf(LayerValue(c, Highest(NestedDefinedIn(c, k, n)), k), n)

\* the merged value at the top-level key k comes from the highest layer
\* that defines it: as it is when it is an array or a primitive, merged key
\* by key with the objects below it when it is an object
FromHighest(c, k) ==
    IF DefinedIn(c, k) = {}
    THEN NoValue(PropOf(c.merged, k))
    ELSE LET top == LayerValue(c, Highest(DefinedIn(c, k)), k)
         IN IF ~IsPlainObject(top)
            THEN PropOf(c.merged, k) = top
            ELSE /\ IsPlainObject(PropOf(c.merged, k))
                 /\ KeysOf(PropOf(c.merged, k))
                       = UNION {KeysOf(LayerValue(c, i, k)) : i \in MergedObjects(c, k)}
                 /\ \A n \in KeysOf(PropOf(c.merged, k)) : NestedFromHighest(c, k, n)

RawChildren(c) == SelectSeq(c.rawData, LAMBDA r : Truthy(r["ParentKey"]))

\* finalData is what the generator makes of the whole document and the
\* store: a row for every child in the document, in order, with the id the
\* store has for its parent
GeneratedFromDocument(c, maps) ==
    /\ Len(c.finalData) = Len(RawChildren(c))
    /\ \A i \in DOMAIN c.finalData :
          /\ c.finalData[i]["ExternalKey"] = RawChildren(c)[i]["ExternalKey"]
          /\ c.finalData[i]["ParentKey"] = maps[c.step.object][RawChildren(c)[i]["ParentKey"]]

\* C39: in generate mode the records handed to transformation and commit
\* are the generator's output for the whole raw data document and the
\* current identifier maps, whatever the step's filter keeps
C39_GenerateIgnoresFilter ==
    (pc = "selected" /\ cur.step.mode = "generate") =>
        GeneratedFromDocument(cur, idMaps)

\* a generate step whose filter keeps none of the document's children
\* handed on a generated child
C39_Witness ==
    /\ pc = "selected"
    /\ cur.step.mode = "generate"
    /\ cur.step.filter # NoFilter
    /\ \A i \in DOMAIN cur.working : ~Truthy(cur.working[i]["ParentKey"])
    /\ Len(cur.finalData) >= 1
    /\ cur.finalData[1]["ParentKey"] = NewId({}, "Account", "k1")


\* the priority of the kinds
PriorityOfKinds ==
    <<"all", "any", "not", "exists", "missing", "equals", "neq", "in", "nin",
      "regex", "gt", "gte", "lt", "lte", "contains", "startsWith", "endsWith",
      "length">>

\* the kinds a predicate object carries: those it gives an argument other
\* than the empty path
Carried(spec) == {k \in DOMAIN spec : spec[k] # <<>>}

\* the carried kind that comes first in the priority
FirstCarried(spec) ==
    PriorityOfKinds[Min({n \in DOMAIN PriorityOfKinds :
                            PriorityOfKinds[n] \in Carried(spec)})]

\* C40: a predicate object that carries more than one kind is decided by
\* the one of them that comes first in the priority all, any, not, exists,
\* missing, equals, neq, in, nin, regex, gt, gte, lt, lte, contains,
\* startsWith, endsWith, length: its value is the value of that kind alone,
\* whatever the other kinds give
C40_FirstKindDecides ==
    (pc = "matched" /\ Carried(cur.spec) # {}) =>
        cur.out = cur.alone[FirstCarried(cur.spec)]

\* a record passed a predicate object whose second kind alone rejects it
C40_Witness ==
    /\ pc = "matched"
    /\ Cardinality(Carried(cur.spec)) = 2
    /\ cur.out
    /\ \E k \in Carried(cur.spec) : ~cur.alone[k]

====
